---- MODULE Spec2Model ----
(***************************************************************************)
(* A model of the offshore project manager of wisdem/orbit/manager.py:     *)
(* ProjectManager.resolve_project_capacity, the phase registry lookup,     *)
(* merge_dicts, and run_project with its design phases, serial install     *)
(* phases and overlapping (defined / dependent) install phases.            *)
(*                                                                         *)
(* Times are exact rationals: every time is an integer number of 1/Scale   *)
(* hours.  Phase durations are multiples of half an hour and completion    *)
(* fractions are multiples of 1/PercDen, so start + elapsed * perc is      *)
(* computed without rounding, and math.ceil is a real rounding up.         *)
(***************************************************************************)
EXTENDS Integers, Sequences, FiniteSets, TLC

VARIABLES
    \* ---- resolve_project_capacity (SpecCap) ----
    cap_pc,             \* "input" | "resolved"
    cap_in,             \* the config handed to resolve_project_capacity
    cap_out,            \* what the call produced: [raised, config]
    \* ---- run_project (Spec) ----
    catch_exceptions,   \* the catch_exceptions keyword of run_project
    design_phases,      \* config["design_phases"]: a list of phase names
    install_phases,     \* config["install_phases"]: [kind, items]
    config,             \* the rest of self.config, a nested dict
    phase_starts,       \* self.phase_starts : name -> start
    phase_times,        \* self.phase_times  : name -> number | sentinel
    phase_costs,        \* self.phase_costs  : name -> number | sentinel
    output_logs,        \* self._output_logs
    phases,             \* self._phases : name -> class of the phase object
    detailed_outputs,   \* self.detailed_outputs: the merged detailed_output of the phases
    pc,                 \* the loop of run_project the run is in
    idx,                \* index of the loop the run is in
    start,              \* the local `start` of run_multiple_phases_in_serial
    defined,            \* the local `defined` of run_multiple_phases_overlapping
    variable,           \* the local `variable` (the dependent entries)
    zero,               \* the local `zero`
    progress,           \* the local `progress` of run_dependent_phases
    raised,             \* the exception run_project ended with, or "none"
    runs,               \* history: every phase object constructed and run
    weather,            \* self.weather: the transformed weather profile, or None
    \* ---- RegulatedPowerCurve.compute (SpecCurve) ----
    inputs,             \* the control limits, the option and the baseline aero power
    step,               \* the part of compute that runs next
    Uhub, Omega, Omega_rpm, pitch,          \* the arrays over the n_pc grid points
    P_aero, P, T, Q, M, Cp,
    Ct_aero, Cq_aero, Cm_aero,
    i_3, region3, i_2p5, i_rated, U_rated, region2p5,   \* the locals of compute
    loop_i,             \* the loop variable i
    outputs,            \* rated_V, rated_Omega, rated_pitch, rated_T, rated_Q
    curve_raised,       \* the exception compute ended with, or "none"
    \* ---- the project results (SpecFin) ----
    progress_data,      \* self.progress.data: the (progress, time) tuples
    fin,                \* the property last read: [op, exc, value]
    \* ---- Cp_Ct_Cq_Tables.compute (SpecTables) ----
    tables              \* the input vectors, the output vectors, the loop and the table

capvars == <<cap_pc, cap_in, cap_out>>
runvars == <<catch_exceptions, design_phases, install_phases, config,
             phase_starts, phase_times, phase_costs, output_logs, phases,
             detailed_outputs, pc, idx, start, defined, variable, zero, progress, raised, runs>>
curvevars == <<inputs, step, Uhub, Omega, Omega_rpm, pitch, P_aero, P, T, Q, M, Cp,
               Ct_aero, Cq_aero, Cm_aero, i_3, region3, i_2p5, i_rated, U_rated,
               region2p5, loop_i, outputs, curve_raised>>
finvars == <<progress_data, fin>>
tablevars == <<tables>>
restvars == <<weather, curvevars, finvars, tablevars>>
vars == <<capvars, runvars, restvars>>

(***************************************************************************)
(* Bounds.                                                                 *)
(***************************************************************************)
MaxVal == 4         \* capacity, rating and turbine count are drawn from 0..MaxVal
MaxDur == 2         \* a phase lasts 1..MaxDur half hours
MaxStart == 1       \* numeric install starts are 0..MaxStart times 1.5 hours
MaxDay == 2         \* weather timestamps and start dates lie in days 0..MaxDay
n_tsr == 2          \* the options n_tsr, n_pitch and n_U: the sizes of the table
n_pitch == 2
n_U == 2
n_pc == 3           \* the option n_pc: the number of grid points of the power curve
MaxP == 4           \* the aerodynamic oracle returns one of MaxP power levels
MaxStrings == 3     \* the progress logs hold 0..MaxStrings 'Array String' entries
MaxTurbines == 4    \* and 0..MaxTurbines 'Turbine' entries

Scale == 2 * 2                  \* time unit: 1/Scale hour
HalfHour == Scale \div 2
PercDen == Scale \div 2         \* completion fractions are pn / PercDen

Range(s) == {s[i] : i \in DOMAIN s}
Min(S) == CHOOSE x \in S : \A y \in S : x <= y

\* math.ceil of the time x (in 1/Scale hours), again in 1/Scale hours
ceil(x) == ((x + Scale - 1) \div Scale) * Scale

(***************************************************************************)
(* Rationals <<n, d>>, d > 0, in lowest terms: the numbers of the plant    *)
(* configuration (capacity / num_turbines is a true division).             *)
(***************************************************************************)
RECURSIVE Gcd(_, _)
Gcd(a, b) == IF b = 0 THEN a ELSE Gcd(b, a % b)

Norm(n, d) == IF n = 0 THEN <<0, 1>> ELSE <<n \div Gcd(n, d), d \div Gcd(n, d)>>
Whole(k) == <<k, 1>>
RatMul(a, b) == Norm(a[1] * b[1], a[2] * b[2])
RatDiv(a, b) == Norm(a[1] * b[2], a[2] * b[1])
RatCeil(a) == Whole((a[1] + a[2] - 1) \div a[2])

\* a key that is missing from the configuration (the KeyError branches)
None == <<0, 0>>

\* Python truthiness as all((...)) applies it: None and 0 are both false
Truthy(v) == v /= None /\ v[1] /= 0

(***************************************************************************)
(* ProjectManager.resolve_project_capacity.  The configuration is reduced  *)
(* to the three keys the method reads; None stands for a missing key.      *)
(***************************************************************************)
resolve_project_capacity(c) ==
    LET project_capacity == c.capacity
        turbine_rating == c.turbine_rating
        num_turbines == c.num_turbines
    IN  IF Truthy(project_capacity) /\ Truthy(turbine_rating) /\ Truthy(num_turbines)
        THEN IF project_capacity /= RatMul(turbine_rating, num_turbines)
             THEN [raised |-> "AttributeError", config |-> c]
             ELSE [raised |-> "none", config |-> c]
        ELSE IF Truthy(project_capacity) /\ Truthy(turbine_rating)
        THEN [raised |-> "none",
              config |-> [c EXCEPT !.num_turbines =
                              RatCeil(RatDiv(project_capacity, turbine_rating))]]
        ELSE IF Truthy(project_capacity) /\ Truthy(num_turbines)
        THEN [raised |-> "none",
              config |-> [c EXCEPT !.turbine_rating =
                              RatDiv(project_capacity, num_turbines)]]
        ELSE IF Truthy(num_turbines) /\ Truthy(turbine_rating)
        THEN [raised |-> "none",
              config |-> [c EXCEPT !.capacity =
                              RatMul(turbine_rating, num_turbines)]]
        ELSE [raised |-> "none", config |-> c]

CapValues == {None} \cup {Whole(k) : k \in 0..MaxVal}
CapConfigs == [capacity : CapValues, turbine_rating : CapValues,
               num_turbines : CapValues]
NoCapConfig == [capacity |-> None, turbine_rating |-> None, num_turbines |-> None]

\* __init__ line 93: self.config = self.resolve_project_capacity(config)
CapResolve ==
    /\ cap_pc = "input"
    /\ cap_out' = resolve_project_capacity(cap_in)
    /\ cap_pc' = "resolved"
    /\ UNCHANGED <<cap_in, runvars, restvars>>

(***************************************************************************)
(* The phase registry and the name lookup.  A phase name is the sequence   *)
(* of its maximal separator-free chunks and its separator characters:      *)
(* "TurbineInstallation_1" is <<"TurbineInstallation", "_", "1">>.         *)
(***************************************************************************)
design_phase_classes ==
    {"ProjectDevelopment", "MonopileDesign", "ArraySystemDesign",
     "CustomArraySystemDesign", "ExportSystemDesign", "ScourProtectionDesign",
     "OffshoreSubstationDesign"}

install_phase_classes ==
    {"MonopileInstallation", "TurbineInstallation",
     "OffshoreSubstationInstallation", "ArrayCableInstallation",
     "ExportCableInstallation", "ScourProtectionInstallation"}

phase_dict == install_phase_classes \cup design_phase_classes

Separators == {"_", " "}

\* re.split("[_ ]", target)[0]: the chunks before the first separator
split_head(target) ==
    LET seps == {i \in DOMAIN target : target[i] \in Separators}
        cut == IF seps = {} THEN Len(target) + 1 ELSE Min(seps)
    IN  SubSeq(target, 1, cut - 1)

NoClass == "None"

\* a lookup that compares the whole name with the class names
find_key_match_whole(target) ==
    IF Len(target) = 1 /\ target[1] \in phase_dict THEN target[1] ELSE NoClass

find_key_match(target) ==
    LET phase == split_head(target)
    IN  IF Len(phase) = 1 /\ phase[1] \in phase_dict THEN phase[1] ELSE NoClass

\* get_phase_class: the class, or the exception it raises
get_phase_class(phase) ==
    LET phase_class == find_key_match(phase)
    IN  IF phase_class = NoClass
        THEN [exc |-> "PhaseNotFound", class |-> NoClass]
        ELSE [exc |-> "none", class |-> phase_class]

(***************************************************************************)
(* Nested dicts.  A dict is a function from its keys to nodes; a node is   *)
(* a scalar [leaf |-> v] or a nested dict [dict |-> d].                    *)
(***************************************************************************)
Leaf(v) == [leaf |-> v]
Dict(d) == [dict |-> d]
IsDict(n) == "dict" \in DOMAIN n
EmptyDict == <<>>
Put(f, k, v) == [x \in DOMAIN f \cup {k} |-> IF x = k THEN v ELSE f[x]]

RECURSIVE merge_dicts(_, _, _, _)
merge_dicts(left, right, overwrite, add_keys) ==
    LET r == IF add_keys THEN right
             ELSE [k \in DOMAIN left \cap DOMAIN right |-> right[k]]
    IN  [k \in DOMAIN left \cup DOMAIN r |->
            IF k \notin DOMAIN r THEN left[k]
            ELSE IF k \in DOMAIN left /\ IsDict(left[k]) /\ IsDict(r[k])
                 THEN Dict(merge_dicts(left[k].dict, r[k].dict, overwrite, add_keys))
            ELSE IF overwrite \/ k \notin DOMAIN left THEN r[k]
            ELSE left[k]]

\* the configuration key a phase name spells; names with separators have no
\* section of their own in the configurations modelled here
name_key(phase) == IF Len(phase) = 1 THEN phase[1] ELSE ""

create_config_for_phase(cfg, phase) ==
    LET specific == IF name_key(phase) \in DOMAIN cfg /\ IsDict(cfg[name_key(phase)])
                    THEN cfg[name_key(phase)].dict ELSE EmptyDict
        general == [k \in DOMAIN cfg \ phase_dict |-> cfg[k]]
    IN  merge_dicts(general, specific, TRUE, TRUE)

(***************************************************************************)
(* What a phase object does when it is constructed and run: it raises, or  *)
(* it ends with a total time, a total cost, its logs and (a design phase)  *)
(* its design_result.  The phase classes are outside the manager; their    *)
(* behaviour is an input.                                                  *)
(***************************************************************************)
Num(n) == [num |-> n]           \* a number stored in phase_costs / phase_times
Str(s) == [str |-> s]           \* a string stored there instead
IsNum(v) == "num" \in DOMAIN v

Durations == {HalfHour * d : d \in 1..MaxDur}
PhaseCosts == {1}

DesignResults ==
    { [k \in {"monopile"} |-> Dict([j \in {"length"} |-> Leaf(1)])],
      [k \in {"monopile", "site"} |->
          IF k = "monopile" THEN Dict([j \in {"length", "mass"} |-> Leaf(2)])
          ELSE Dict([j \in {"depth", "distance"} |-> Leaf(2)])],
      [k \in {"site"} |-> Leaf(2)] }

UserConfigs ==
    { EmptyDict,
      [k \in {"site"} |-> Dict([j \in {"depth"} |-> Leaf(1)])],
      [k \in {"site", "MonopileDesign"} |->
          IF k = "site" THEN Leaf(1)
          ELSE Dict([j \in {"monopile"} |-> Dict([i \in {"mass"} |-> Leaf(1)])])] }

InstallOutcomes ==
    [exc : {"none"}, time : Durations, cost : PhaseCosts, result : {EmptyDict}]
    \cup [exc : {"ValueError", "KeyError"}, time : {0}, cost : {0}, result : {EmptyDict}]

DesignOutcomes ==
    [exc : {"none"}, time : Durations, cost : PhaseCosts, result : DesignResults]
    \cup [exc : {"ValueError"}, time : {0}, cost : {0}, result : {EmptyDict}]

\* phase.env.logs of an install phase that ran: a message without a time,
\* then the completion entry at the phase-local time `time`
phase_logs(name, time, cost) ==
    << [phase |-> name, keys |-> {"message"}, time |-> 0, cost |-> 0],
       [phase |-> name, keys |-> {"message", "time", "cost"},
        time |-> time, cost |-> cost] >>

\* phase.detailed_output: one entry under the phase's name; merge_dicts with
\* its defaults puts it into self.detailed_outputs
merge_detailed_output(detailed, name, o) ==
    merge_dicts(detailed, [k \in {name} |-> Leaf(o.cost)], TRUE, TRUE)

\* one phase object constructed and run
Run(name, kind, class, st, o, cfg) ==
    [name |-> name, kind |-> kind, class |-> class, start |-> st,
     exc |-> o.exc, time |-> o.time, cost |-> o.cost, result |-> o.result,
     cfg |-> cfg]

\* a failed phase whose start is recorded all the same
run_install_phase_start_kept(name, st, catch, o) ==
    LET c == get_phase_class(name)
        run == Run(name, "install", c.class, st, o, EmptyDict)
        same == [exc |-> "none", returned |-> FALSE, time |-> 0, logs |-> <<>>,
                 phase_starts |-> phase_starts, phase_costs |-> phase_costs,
                 phase_times |-> phase_times, phases |-> phases,
                 detailed_outputs |-> detailed_outputs, runs |-> runs]
    IN  IF c.exc /= "none" THEN [same EXCEPT !.exc = c.exc]
        ELSE IF o.exc /= "none" /\ catch
        THEN [same EXCEPT !.phase_starts = Put(phase_starts, name, st),
                          !.phase_costs = Put(phase_costs, name, Str(o.exc)),
                          !.phase_times = Put(phase_times, name, Str(o.exc)),
                          !.runs = Append(runs, run)]
        ELSE IF o.exc /= "none"
        THEN [same EXCEPT !.exc = o.exc, !.runs = Append(runs, run)]
        ELSE [exc |-> "none", returned |-> TRUE, time |-> o.time,
              logs |-> phase_logs(name, o.time, o.cost),
              phase_starts |-> Put(phase_starts, name, st),
              phase_costs |-> Put(phase_costs, name, Num(o.cost)),
              phase_times |-> Put(phase_times, name, Num(o.time)),
              phases |-> Put(phases, name, c.class),
              detailed_outputs |-> merge_detailed_output(detailed_outputs, name, o),
              runs |-> Append(runs, run)]

(***************************************************************************)
(* run_install_phase(name, start, catch_exceptions=catch) when the phase   *)
(* object behaves as o.  The result: the exception that leaves the method  *)
(* (or "none"), whether it returned (cost, time, logs) rather than         *)
(* (None, None, None), and the manager's maps after the call.              *)
(***************************************************************************)
run_install_phase(name, st, catch, o) ==
    LET c == get_phase_class(name)
        run == Run(name, "install", c.class, st, o, EmptyDict)
        same == [exc |-> "none", returned |-> FALSE, time |-> 0, logs |-> <<>>,
                 phase_starts |-> phase_starts, phase_costs |-> phase_costs,
                 phase_times |-> phase_times, phases |-> phases,
                 detailed_outputs |-> detailed_outputs, runs |-> runs]
    IN  IF c.exc /= "none" THEN [same EXCEPT !.exc = c.exc]
        ELSE IF o.exc /= "none" /\ catch
        THEN [same EXCEPT !.phase_costs = Put(phase_costs, name, Str(o.exc)),
                          !.phase_times = Put(phase_times, name, Str(o.exc)),
                          !.runs = Append(runs, run)]
        ELSE IF o.exc /= "none"
        THEN [same EXCEPT !.exc = o.exc, !.runs = Append(runs, run)]
        ELSE [exc |-> "none", returned |-> TRUE, time |-> o.time,
              logs |-> phase_logs(name, o.time, o.cost),
              phase_starts |-> Put(phase_starts, name, st),
              phase_costs |-> Put(phase_costs, name, Num(o.cost)),
              phase_times |-> Put(phase_times, name, Num(o.time)),
              phases |-> Put(phases, name, c.class),
              detailed_outputs |-> merge_detailed_output(detailed_outputs, name, o),
              runs |-> Append(runs, run)]

\* logs that are handed on as the phase wrote them
shift_logs_none(logs, shift) == logs

\* for l in logs: try: l["time"] += shift except KeyError: pass
shift_logs(logs, shift) ==
    [i \in DOMAIN logs |->
        IF "time" \in logs[i].keys
        THEN [logs[i] EXCEPT !.time = logs[i].time + shift]
        ELSE logs[i]]

\* a merge left at merge_dicts' default overwrite=True
merge_design_result_overwrite(cfg, design_result) ==
    merge_dicts(cfg, design_result, TRUE, TRUE)

\* run_design_phase lines 517-519: the design_result goes into self.config
merge_design_result(cfg, design_result) == merge_dicts(cfg, design_result, FALSE, TRUE)

(***************************************************************************)
(* run_design_phase(name, catch_exceptions=catch) when the phase object    *)
(* behaves as o.                                                           *)
(***************************************************************************)
run_design_phase(name, catch, o) ==
    LET c == get_phase_class(name)
        run == Run(name, "design", c.class, 0, o, create_config_for_phase(config, name))
        same == [exc |-> "none", config |-> config, phase_costs |-> phase_costs,
                 phase_times |-> phase_times, phases |-> phases,
                 detailed_outputs |-> detailed_outputs, runs |-> runs]
    IN  IF c.exc /= "none" THEN [same EXCEPT !.exc = c.exc]
        ELSE IF o.exc /= "none" /\ catch
        THEN [same EXCEPT !.phase_costs = Put(phase_costs, name, Str(o.exc)),
                          !.phase_times = Put(phase_times, name, Str(o.exc)),
                          !.runs = Append(runs, run)]
        ELSE IF o.exc /= "none"
        THEN [same EXCEPT !.exc = o.exc, !.runs = Append(runs, run)]
        ELSE [exc |-> "none",
              config |-> merge_design_result(config, o.result),
              phase_costs |-> Put(phase_costs, name, Num(o.cost)),
              phase_times |-> Put(phase_times, name, Num(o.time)),
              phases |-> Put(phases, name, c.class),
              detailed_outputs |-> merge_detailed_output(detailed_outputs, name, o),
              runs |-> Append(runs, run)]

(***************************************************************************)
(* RegulatedPowerCurve.compute (rotor_aeropower.py).  Wind speeds, rotor   *)
(* speeds and powers are whole numbers of small units.  The blade-element  *)
(* code (ccblade.evaluate) is an oracle: each call returns an aerodynamic  *)
(* power out of AeroLevels and loads that are not zero.  The bounded       *)
(* solvers of scipy are inputs as well: a root or minimum inside the       *)
(* bracket, or the failure the code handles.  Array indices are those of   *)
(* the source (from 0).                                                    *)
(***************************************************************************)
VStep == 60                     \* the spacing of np.linspace(Vin, Vout, n_pc)
control_Vin == VStep
control_tsr == 4
Rtip == 2
control_ratedPower == 10

Grid == 0..(n_pc - 1)
\* a[k] of the source, a negative k counting from the end
At(a, k) == IF k < 0 THEN a[Len(a) + k + 1] ELSE a[k + 1]
\* a[k] = v
Set(a, k, v) == [a EXCEPT ![k + 1] = v]
\* a[k:] = b[k:]
SetFrom(a, k, b) == [j \in DOMAIN a |-> IF j - 1 >= k THEN b[j] ELSE a[j]]
Minimum(a, b) == IF a <= b THEN a ELSE b
Maximum(a, b) == IF a >= b THEN a ELSE b

\* 30 / pi is taken as 10
RS2RPM(x) == x * 10                 \* Omega * 30. / np.pi
RPM2RS(x) == x \div 10              \* rpm * np.pi / 30.

\* np.linspace(control_Vin, control_Vout, npc)
linspace == [j \in 1..n_pc |-> control_Vin + VStep * (j - 1)]
control_Vout == linspace[n_pc]

\* CSMDrivetrain: the electrical power of an aerodynamic power
\* (an efficiency of 9/10)
CSMDrivetrain(aeroPower) == (aeroPower * 9) \div 10

\* what ccblade.evaluate returns for P_aero; the third level lies above the
\* rated power and its electrical power below
AeroLevels == {3 * k + 2 : k \in 1..MaxP}
\* the aerodynamic power a root of (P - P_rated) is found at
RatedAero == CHOOSE a \in 0..(2 * control_ratedPower) :
                CSMDrivetrain(a) = control_ratedPower
\* the aerodynamic powers a bounded minimisation of |P - P_rated| ends at when
\* the residual has no zero: the levels next to rated power
LeastResidual ==
    {a \in AeroLevels :
        \A b \in AeroLevels :
           (CSMDrivetrain(b) < control_ratedPower) = (CSMDrivetrain(a) < control_ratedPower)
              => \/ (CSMDrivetrain(a) < control_ratedPower /\ b <= a)
                 \/ (CSMDrivetrain(a) >= control_ratedPower /\ a <= b)}
\* the loads and coefficients ccblade.evaluate returns: T, Q, M, Ct, Cq, Cm
Load == 1
Torque == Whole(1)

\* np.interp(x, xp, fp): the ends outside xp, else the interpolation on the
\* first segment with xp[j] <= x < xp[j + 1] (the search of short arrays)
interp(x, xp, fp) ==
    LET n == Len(xp)
        above == {j \in 2..n : x < xp[j]}
    IN  IF x > xp[n] THEN fp[n]
        ELSE IF x < xp[1] THEN fp[1]
        ELSE IF above = {} THEN fp[n]
        ELSE LET j == Min(above) - 1
             IN  fp[j] + ((fp[j + 1] - fp[j]) * (x - xp[j])) \div (xp[j + 1] - xp[j])

\* np.nonzero(cond)[0][0]: the first index (from 0) that satisfies cond
FirstIndex(cond) == Min({k \in DOMAIN cond : cond[k]})

\* the rotor speed limits, in rad/s, half-way between the grid's tsr speeds:
\* below the first, between the first two and above the last
OmegaLevels == {((control_Vin * control_tsr) \div Rtip) \div 2
                   + ((VStep * control_tsr) \div Rtip) * j : j \in {0, 1, n_pc}}

\* the tip-speed limit lies between the last two tsr speeds of the grid, or
\* above the grid where the rotor-speed limit is above it too (no capped point)
CurveInputs ==
    {in \in
        [control_minOmega : {0} \cup {RS2RPM(w) : w \in
                                {v \in OmegaLevels : /\ (linspace[1] * control_tsr) \div Rtip < v
                                                     /\ v < (linspace[n_pc] * control_tsr) \div Rtip}},
         control_maxOmega : {RS2RPM(w) : w \in OmegaLevels},
         control_maxTS : {Rtip * (((VStep * control_tsr) \div Rtip) * k
                                  + ((control_Vin * control_tsr) \div Rtip) \div 2) :
                             k \in {n_pc - 1, n_pc}},
         regulation_reg_III : BOOLEAN,
         aero : [1..n_pc -> AeroLevels]] :
        in.control_maxTS > Rtip * ((linspace[n_pc] * control_tsr) \div Rtip)
            => RPM2RS(in.control_maxOmega) > (linspace[n_pc] * control_tsr) \div Rtip}

NoInputs == [control_minOmega |-> 0, control_maxOmega |-> 0, control_maxTS |-> 0,
             regulation_reg_III |-> FALSE, aero |-> <<>>]

\* the component before compute is called
CurveIdle(in, st) ==
    /\ inputs = in
    /\ step = st
    /\ Uhub = <<>> /\ Omega = <<>> /\ Omega_rpm = <<>> /\ pitch = <<>>
    /\ P_aero = <<>> /\ P = <<>> /\ T = <<>> /\ Q = <<>> /\ M = <<>> /\ Cp = <<>>
    /\ Ct_aero = <<>> /\ Cq_aero = <<>> /\ Cm_aero = <<>>
    /\ i_3 = 0 /\ region3 = FALSE /\ i_2p5 = 0 /\ i_rated = 0 /\ U_rated = 0
    /\ region2p5 = FALSE
    /\ loop_i = 0
    /\ outputs = [V_R25 |-> 0, rated_V |-> 0, rated_Omega |-> 0, rated_pitch |-> 0,
                  rated_T |-> 0, rated_Q |-> Whole(0)]
    /\ curve_raised = "none"

(***************************************************************************)
(* Cp_Ct_Cq_Tables.compute: the three input vectors, the default grids     *)
(* that replace an unset vector, and the table filled row by row.  The     *)
(* aerodynamic oracle is a function of its arguments: a cell of the table  *)
(* holds the wind speed, rotor speed and pitch it was evaluated at.        *)
(***************************************************************************)
\* np.linspace(a, b, n)
np_linspace(a, b, n) == [k \in 1..n |-> a + ((b - a) * (k - 1)) \div (n - 1)]

\* max(vector)
max(v) == CHOOSE x \in {v[k] : k \in DOMAIN v} : \A k \in DOMAIN v : v[k] <= x

\* the values a user gives to the entries of the vectors
PitchLevels == {-5, 0, 5}
TsrLevels == {0, 8}
WindLevels == {0, control_Vin}

\* np.zeros((n_tsr, n_pitch, n_U))
np_zeros == [j \in 1..n_tsr |-> [k \in 1..n_pitch |-> [i \in 1..n_U |-> 0]]]

\* the component before compute is called
TablesIdle ==
    tables = [step |-> "idle", pitch_vector_in |-> <<>>, tsr_vector_in |-> <<>>,
              U_vector_in |-> <<>>, pitch_vector |-> <<>>, tsr_vector |-> <<>>,
              U_vector |-> <<>>, i |-> 0, j |-> 0, Cp_aero_table |-> <<>>]

\* ccblade.evaluate(U, Omega, pitch_vector, coefficients=True)[4][k], with
\* Omega = tsr * U / R * 30. / np.pi
evaluate(U, tsr, pitch_k) ==
    [U |-> U, Omega |-> RS2RPM((tsr * U) \div Rtip), pitch |-> pitch_k]

\* compute lines 426-448: the vectors used; the output table starts as zeros
TablesSetup ==
    /\ tables.step = "setup"
    /\ LET U_vector == IF max(tables.U_vector_in) = 0
                       THEN np_linspace(control_Vin, control_Vout, n_U)
                       ELSE tables.U_vector_in
           tsr_vector == IF max(tables.tsr_vector_in) = 0
                         THEN np_linspace(7, 11, n_tsr)
                         ELSE tables.tsr_vector_in
           pitch_vector == IF max(tables.pitch_vector_in) = 0
                           THEN np_linspace(-5, 5, n_pitch)
                           ELSE tables.pitch_vector_in
       IN  tables' = [tables EXCEPT !.pitch_vector = pitch_vector,
                                    !.tsr_vector = tsr_vector,
                                    !.U_vector = U_vector,
                                    !.Cp_aero_table = np_zeros,
                                    !.i = 0, !.j = 0,
                                    !.step = "fill"]
    /\ UNCHANGED <<capvars, runvars, weather, curvevars, finvars>>

\* compute lines 456-460: one pass of the inner loop fills the row [j, :, i]
TablesFill ==
    /\ tables.step = "fill"
    /\ LET i == tables.i
           j == tables.j
           row == [k \in 1..n_pitch |->
                      evaluate(At(tables.U_vector, i), At(tables.tsr_vector, j),
                               tables.pitch_vector[k])]
           last_j == j + 1 >= n_tsr
       IN  tables' = [tables EXCEPT
                         !.Cp_aero_table =
                             [jj \in 1..n_tsr |-> [k \in 1..n_pitch |-> [ii \in 1..n_U |->
                                 IF jj = j + 1 /\ ii = i + 1 THEN row[k]
                                 ELSE tables.Cp_aero_table[jj][k][ii]]]],
                         !.j = IF last_j THEN 0 ELSE j + 1,
                         !.i = IF last_j THEN i + 1 ELSE i,
                         !.step = IF last_j /\ i + 1 >= n_U THEN "done" ELSE "fill"]
    /\ UNCHANGED <<capvars, runvars, weather, curvevars, finvars>>

(***************************************************************************)
(* ProjectProgress and the financial properties of ProjectManager.  Money  *)
(* is in whole dollars, rates are fractions <<n, d>>.                      *)
(***************************************************************************)
FinIdle == progress_data = <<>> /\ fin = [op |-> "none", exc |-> "none", value |-> <<>>]

RECURSIVE SumSeq(_)
SumSeq(q) == IF q = <<>> THEN 0 ELSE q[1] + SumSeq(Tail(q))
MaxOf(S) == CHOOSE x \in S : \A y \in S : y <= x

\* _filter_logs(keys): the logs that have every key, in order
filter_logs(logs, keys) == SelectSeq(logs, LAMBDA l : keys \subseteq l.keys)

\* progress_logs: the (progress, time) tuples
progress_logs(logs) ==
    LET f == filter_logs(logs, {"progress", "time"})
    IN  [j \in DOMAIN f |-> <<f[j].progress, f[j].time>>]

\* ProjectProgress.parse_logs(k)
parse_logs(data, k) ==
    LET sel == SelectSeq(data, LAMBDA p : p[1] = k)
        pts == [j \in DOMAIN sel |-> sel[j][2]]
    IN  [exc |-> IF pts = <<>> THEN "ValueError" ELSE "none", pts |-> pts]

\* l[i : i + n] for i in range(0, len(l), n)
chunks(l, n) ==
    [c \in 1..((Len(l) + n - 1) \div n) |->
        SubSeq(l, (c - 1) * n + 1, Minimum(c * n, Len(l)))]

chunk_max(l, n) == [c \in DOMAIN chunks(l, n) |-> MaxOf(Range(chunks(l, n)[c]))]
chunk_len(l, n) == [c \in DOMAIN chunks(l, n) |-> Len(chunks(l, n)[c])]

\* ProjectProgress.complete_export_system
complete_export_system(data) ==
    LET export == parse_logs(data, "Export System")
        substations == parse_logs(data, "Offshore Substation")
    IN  IF export.exc /= "none" THEN [exc |-> export.exc, time |-> 0]
        ELSE IF substations.exc /= "none" THEN [exc |-> substations.exc, time |-> 0]
        ELSE [exc |-> "none", time |-> MaxOf(Range(export.pts) \cup Range(substations.pts))]

\* ProjectProgress.complete_array_strings
complete_array_strings(data) ==
    LET strings == parse_logs(data, "Array String")
        subs == parse_logs(data, "Substructure")
        turbines == parse_logs(data, "Turbine")
        per_string == (Len(turbines.pts) \div Len(strings.pts))
                        + (IF Len(turbines.pts) % Len(strings.pts) /= 0 THEN 1 ELSE 0)
        sub_max == chunk_max(subs.pts, per_string)
        turbine_max == chunk_max(turbines.pts, per_string)
        \* list(zip(strings, subs, turbines)): as long as the shortest
        zipped == [j \in 1..Minimum(Len(strings.pts), Minimum(Len(sub_max), Len(turbine_max))) |->
                      <<strings.pts[j], sub_max[j], turbine_max[j]>>]
        failed(e) == [exc |-> e, times |-> <<>>, turbines |-> <<>>]
    IN  IF strings.exc /= "none" THEN failed(strings.exc)
        ELSE IF subs.exc /= "none" THEN failed(subs.exc)
        ELSE IF turbines.exc /= "none" THEN failed(turbines.exc)
        ELSE [exc |-> "none",
              times |-> [j \in DOMAIN zipped |-> MaxOf(Range(zipped[j]))],
              turbines |-> chunk_len(turbines.pts, per_string)]

\* ProjectProgress.energize_points
energize_points(data) ==
    LET export == complete_export_system(data)
        arrays == complete_array_strings(data)
    IN  IF export.exc /= "none" THEN [exc |-> export.exc, times |-> <<>>, turbines |-> <<>>]
        ELSE IF arrays.exc /= "none" THEN arrays
        ELSE [arrays EXCEPT !.times =
                 [j \in DOMAIN arrays.times |-> Maximum(arrays.times[j], export.time)]]

(***************************************************************************)
(* The financial properties of ProjectManager.  The numbers of the         *)
(* configuration and the money amounts are rationals <<n, d>>.             *)
(***************************************************************************)
RatAdd(a, b) == Norm(a[1] * b[2] + b[1] * a[2], a[2] * b[2])
RatSub(a, b) == Norm(a[1] * b[2] - b[1] * a[2], a[2] * b[2])
RatLess(a, b) == a[1] * b[2] < b[1] * a[2]
Zero == Whole(0)

RECURSIVE RatSum(_)
RatSum(q) == IF q = <<>> THEN Zero ELSE RatAdd(q[1], RatSum(Tail(q)))

MonthHours == 730
MonthLen == MonthHours * Scale      \* a month in 1/Scale hours

\* self.config.get(k, default) of a scalar
get(cfg, k, default) == IF k \in DOMAIN cfg THEN cfg[k].leaf ELSE default

\* range(1, lifetime * 12)
Months(cfg) == 1..(get(cfg, "project_lifetime", Whole(25))[1] * 12 - 1)

\* config[a][b], None on a KeyError
get2(cfg, a, b) ==
    IF a \in DOMAIN cfg /\ IsDict(cfg[a]) /\ b \in DOMAIN cfg[a].dict
    THEN cfg[a].dict[b].leaf ELSE None

turbine_rating == get2(config, "turbine", "turbine_rating")

\* project_time: the time of the last log
project_time == output_logs[Len(output_logs)].time

\* np.arange(0, project_time + 730, 730)
month_bins ==
    [k \in 1..((project_time + MonthLen + MonthLen - 1) \div MonthLen) |-> (k - 1) * MonthLen]

\* np.digitize(x, bins) for increasing bins: how many bins are <= x
digitize(x, bins) == Cardinality({k \in DOMAIN bins : bins[k] <= x})

\* generating_strings = len([t for t in dig if i >= t]), then
\* sum(turbines[:generating_strings])
generating_turbines(ep, i) ==
    LET generating_strings ==
            Cardinality({j \in DOMAIN ep.times : i >= digitize(ep.times[j], month_bins)})
    IN  SumSeq(SubSeq(ep.turbines, 1, Minimum(generating_strings, Len(ep.turbines))))

Failed(e) == [exc |-> e, value |-> <<>>]
Value(v) == [exc |-> "none", value |-> v]

\* the one element of a singleton: {f(x) : x \in {v}} computes v once, as
\* an assignment `x = v` does
The(S) == CHOOSE r \in S : TRUE

\* ProjectManager.monthly_opex
monthly_opex ==
    LET rate == get(config, "opex_rate", Whole(150))
        opex(ep) ==
            IF ep.exc = "ValueError" THEN Value([i \in Months(config) |-> Zero])
            ELSE IF ep.exc /= "none" THEN Failed(ep.exc)
            ELSE IF Months(config) /= {} /\ turbine_rating = None THEN Failed("TypeError")
            ELSE Value([i \in Months(config) |->
                    RatDiv(RatMul(RatMul(Whole(generating_turbines(ep, i)), turbine_rating),
                                  RatMul(rate, Whole(1000))), Whole(12))])
    IN  The({opex(ep) : ep \in {energize_points(progress_data)}})

\* ProjectManager.monthly_revenue
monthly_revenue ==
    LET ncf == get(config, "ncf", <<2, 5>>)
        price == get(config, "offtake_price", Whole(80))
        revenue(ep) ==
            IF ep.exc /= "none" THEN Failed(ep.exc)
            ELSE IF Months(config) /= {} /\ turbine_rating = None THEN Failed("TypeError")
            ELSE Value([i \in Months(config) |->
                    RatMul(RatMul(RatMul(Whole(generating_turbines(ep, i)), turbine_rating),
                                  RatMul(ncf, Whole(MonthHours))), price)])
    IN  The({revenue(ep) : ep \in {energize_points(progress_data)}})

\* ProjectManager.monthly_expenses
monthly_expenses ==
    LET \* the times are read into an "i4" field: the whole hours
        expenses == filter_logs(output_logs, {"cost", "time"})
        dig == [j \in DOMAIN expenses |->
                   digitize((expenses[j].time \div Scale) * Scale, month_bins)]
        monthly(opex, d) ==
            IF opex.exc /= "none" THEN opex
            ELSE Value([i \in Months(config) |->
                    RatAdd(Whole(SumSeq([j \in DOMAIN expenses |->
                                            IF d[j] = i THEN expenses[j].cost ELSE 0])),
                           opex.value[i])])
    IN  The({monthly(opex, d) : opex \in {monthly_opex}, d \in {dig}})

\* dict.get(i, 0.0)
get_month(d, i) == IF i \in DOMAIN d THEN d[i] ELSE Zero

\* cash_flow without the `except ValueError` around monthly_revenue
cash_flow_uncaught ==
    LET flow(rev, expenses) ==
            IF rev.exc /= "none" THEN rev
            ELSE IF expenses.exc /= "none" THEN expenses
            ELSE IF DOMAIN rev.value \cup DOMAIN expenses.value = {} THEN Failed("ValueError")
            ELSE Value([i \in 1..MaxOf(DOMAIN rev.value \cup DOMAIN expenses.value) |->
                    RatSub(get_month(rev.value, i), get_month(expenses.value, i))])
    IN  The({flow(rev, expenses) : rev \in {monthly_revenue}, expenses \in {monthly_expenses}})

\* ProjectManager.cash_flow
cash_flow ==
    LET flow(rev, expenses) ==
            LET revenue == IF rev.exc = "ValueError" THEN <<>> ELSE rev.value
                keys == DOMAIN revenue \cup DOMAIN expenses.value
            IN  IF rev.exc \notin {"none", "ValueError"} THEN rev
                ELSE IF expenses.exc /= "none" THEN expenses
                ELSE IF keys = {} THEN Failed("ValueError")
                ELSE Value([i \in 1..MaxOf(keys) |->
                        RatSub(get_month(revenue, i), get_month(expenses.value, i))])
    IN  The({flow(rev, expenses) : rev \in {monthly_revenue}, expenses \in {monthly_expenses}})

\* sum of the phase costs of the keys in S; a string among them is a TypeError
RECURSIVE SumCosts(_, _)
SumCosts(costs, S) ==
    IF S = {} THEN 0
    ELSE LET k == CHOOSE x \in S : TRUE IN costs[k].num + SumCosts(costs, S \ {k})

\* ProjectManager.bos_capex
bos_capex ==
    IF \E k \in DOMAIN phase_costs : ~IsNum(phase_costs[k]) THEN Failed("TypeError")
    ELSE Value(Whole(SumCosts(phase_costs, DOMAIN phase_costs)))

\* ProjectManager.installation_capex: the numeric costs of the install phases
installation_capex ==
    LET listed == {install_phases.items[j].name : j \in DOMAIN install_phases.items}
    IN  Value(Whole(SumCosts(phase_costs,
            {k \in DOMAIN phase_costs : k \in listed /\ IsNum(phase_costs[k])})))

\* ProjectManager.turbine_capex
turbine_capex ==
    LET capex == get(config, "turbine_capex", Zero)
        num_turbines == get2(config, "plant", "num_turbines")
        rating == get2(config, "turbine", "turbine_rating")
    IN  IF num_turbines = None \/ rating = None THEN Value(Zero)
        ELSE Value(RatMul(RatMul(capex, num_turbines), RatMul(rating, Whole(1000))))

\* the check both properties make of their fraction
out_of_range(f) == RatLess(f, Zero) \/ RatLess(Whole(1), f)

\* ProjectManager.commissioning
commissioning ==
    LET comm == get(config, "commissioning", Zero)
    IN  IF out_of_range(comm) THEN Failed("ValueError")
        ELSE IF bos_capex.exc /= "none" THEN bos_capex
        ELSE Value(RatMul(RatAdd(bos_capex.value, turbine_capex.value), comm))

\* ProjectManager.decommissioning
decommissioning ==
    LET decomm == get(config, "decommissioning", Zero)
    IN  IF out_of_range(decomm) THEN Failed("ValueError")
        ELSE Value(RatMul(installation_capex.value, decomm))

\* ProjectManager.overnight_capex
overnight_capex ==
    LET design == {k \in DOMAIN phase_costs : Len(k) = 1 /\ k[1] \in design_phase_classes}
    IN  IF \E k \in design : ~IsNum(phase_costs[k]) THEN Failed("TypeError")
        ELSE Value(RatAdd(Whole(SumCosts(phase_costs, design)), turbine_capex.value))

\* ProjectManager.total_capex
total_capex ==
    IF bos_capex.exc /= "none" THEN bos_capex
    ELSE IF commissioning.exc /= "none" THEN commissioning
    ELSE IF decommissioning.exc /= "none" THEN decommissioning
    ELSE Value(RatAdd(RatAdd(bos_capex.value, turbine_capex.value),
                      RatAdd(commissioning.value, decommissioning.value)))

\* ProjectManager.npv; the monthly rate (1 + dr) ** (1 / 12) - 1 is rational
\* only for dr = 0, the discount rate of the configurations modelled here
npv ==
    LET dr == get(config, "discount_rate", <<1, 40>>)
        value(flow) ==
            IF flow.exc /= "none" THEN flow
            ELSE IF overnight_capex.exc /= "none" THEN overnight_capex
            ELSE IF dr /= Zero THEN Value("discounted")
            ELSE Value(RatSub(overnight_capex.value, RatSum(flow.value)))
    IN  The({value(flow) : flow \in {cash_flow}})

(***************************************************************************)
(* The weather profile.  A timestamp is a whole number of hours after the  *)
(* midnight that begins day 0.  The weather input is None, a frame with a  *)
(* "datetime" column, or a frame without one (it keeps its RangeIndex).    *)
(***************************************************************************)
DayHours == 24

NoWeather == [kind |-> "None", index |-> <<>>]

\* transform_weather_input: set_index("datetime"), or the frame as it is
transform_weather_input(w) ==
    IF w.kind = "None" THEN NoWeather
    ELSE IF w.kind = "datetime" THEN [kind |-> "DatetimeIndex", index |-> w.datetime]
    ELSE [kind |-> "RangeIndex", index |-> [i \in 1..w.rows |-> i - 1]]

\* dt.datetime.strptime(v, "%m/%d/%Y"): midnight of the day the string names
strptime(day) == DayHours * day

\* self.weather.index.get_loc(_dt): the position (from 0) of the label _dt;
\* a datetime is no label of a RangeIndex
get_loc(w, t) ==
    LET at == IF w.kind = "DatetimeIndex"
              THEN {i \in DOMAIN w.index : w.index[i] = t} ELSE {}
    IN  IF w.kind = "None" THEN [exc |-> "AttributeError", loc |-> 0]
        ELSE IF at = {} THEN [exc |-> "KeyError", loc |-> 0]
        ELSE [exc |-> "none", loc |-> Min(at) - 1]

(***************************************************************************)
(* The configurations a run starts from.                                   *)
(***************************************************************************)
\* the names a configuration may list, in the order it lists them
InstallPool == << <<"MonopileInstallation">>,
                  <<"Turbine", "_", "Installation">>,
                  <<"TurbineInstallation", "_", "1">>,
                  <<"ArrayCableInstallation", " ", "x">> >>

DesignPool == << <<"MonopileDesign">>,
                 <<"Monopile", " ", "Design">>,
                 <<"ArraySystemDesign", "_", "a">> >>

\* the elements of pool at the positions S, in pool order
Pick(pool, S) ==
    [j \in 1..Cardinality(S) |->
        pool[CHOOSE i \in S : Cardinality({x \in S : x < i}) = j - 1]]

Lists(pool) == {Pick(pool, S) : S \in SUBSET DOMAIN pool}

NoVal == [t |-> "none", v |-> 0, target |-> <<>>, perc |-> 0]

\* the values of a mapping-form install_phases: a number, a (target, perc)
\* tuple, or anything else
NumericStarts == {3 * HalfHour * k : k \in 0..MaxStart}
InstallValues ==
    {[NoVal EXCEPT !.t = "num", !.v = x] : x \in NumericStarts}
    \cup {[NoVal EXCEPT !.t = "dep", !.target = n, !.perc = q] :
             n \in Range(InstallPool), q \in 1..PercDen}
    \cup {[NoVal EXCEPT !.t = "bad"]}

ListOf(names) ==
    [kind |-> "list", items |-> [i \in DOMAIN names |-> [name |-> names[i], val |-> NoVal]]]

DictsOf(names) ==
    {[kind |-> "dict", items |-> [i \in DOMAIN names |-> [name |-> names[i], val |-> f[i]]]] :
        f \in [DOMAIN names -> InstallValues]}

InstallConfigs(names) == {ListOf(names)} \cup DictsOf(names)

InitRun ==
    /\ catch_exceptions \in BOOLEAN
    /\ \/ /\ design_phases \in Lists(DesignPool)
          /\ config \in UserConfigs
          /\ install_phases = ListOf(<<>>)
       \/ /\ design_phases = <<>>
          /\ config = EmptyDict
          /\ \E names \in Lists(InstallPool) : install_phases \in InstallConfigs(names)
       \/ /\ design_phases = <<DesignPool[1]>>
          /\ config = EmptyDict
          /\ \E names \in Lists(SubSeq(InstallPool, 1, 2)) \cup {<<InstallPool[1], InstallPool[3]>>} :
                install_phases \in InstallConfigs(names)
    /\ phase_starts = <<>>
    /\ phase_times = <<>>
    /\ phase_costs = <<>>
    /\ output_logs = <<>>
    /\ phases = <<>>
    /\ detailed_outputs = <<>>
    /\ raised = "none"
    /\ pc = "design"
    /\ idx = 1
    /\ start = 0
    /\ defined = <<>>
    /\ variable = <<>>
    /\ zero = 0
    /\ progress = FALSE
    /\ raised = "none"
    /\ runs = <<>>

Init ==
    /\ cap_pc = "resolved"
    /\ cap_in = NoCapConfig
    /\ cap_out = resolve_project_capacity(NoCapConfig)
    /\ weather = NoWeather
    /\ CurveIdle(NoInputs, "idle")
    /\ FinIdle
    /\ TablesIdle
    /\ InitRun

InitCap ==
    /\ cap_pc = "input"
    /\ cap_in \in CapConfigs
    /\ cap_out = [raised |-> "none", config |-> cap_in]
    /\ weather = NoWeather
    /\ CurveIdle(NoInputs, "idle")
    /\ FinIdle
    /\ TablesIdle
    /\ catch_exceptions = FALSE
    /\ design_phases = <<>>
    /\ config = EmptyDict
    /\ install_phases = ListOf(<<>>)
    /\ phase_starts = <<>>
    /\ phase_times = <<>>
    /\ phase_costs = <<>>
    /\ output_logs = <<>>
    /\ phases = <<>>
    /\ detailed_outputs = <<>>
    /\ pc = "new"
    /\ idx = 1
    /\ start = 0
    /\ defined = <<>>
    /\ variable = <<>>
    /\ zero = 0
    /\ progress = FALSE
    /\ raised = "none"
    /\ runs = <<>>

(***************************************************************************)
(* The inputs of _parse_install_phase_values on their own: a mapping of up *)
(* to two entries whose values are numbers, dates, (target, perc) tuples   *)
(* or anything else, and every weather input over the days 0..MaxDay with  *)
(* timestamps at midnight and at noon.                                     *)
(***************************************************************************)
\* the elements of the set S of numbers in increasing order
Sorted(S) ==
    [j \in 1..Cardinality(S) |-> CHOOSE x \in S : Cardinality({y \in S : y < x}) = j - 1]

WeatherInputs ==
    {[kind |-> "None", datetime |-> <<>>, rows |-> 0]}
    \cup {[kind |-> "datetime", datetime |-> Sorted(S), rows |-> Cardinality(S)] :
             S \in SUBSET {DayHours * d + h : d \in 0..MaxDay, h \in {0, DayHours \div 2}} \ {{}}}
    \cup {[kind |-> "frame", datetime |-> <<>>, rows |-> 2]}

ParseValues ==
    InstallValues \cup {[NoVal EXCEPT !.t = "date", !.v = d] : d \in 0..MaxDay}

InitParse ==
    /\ cap_pc = "resolved"
    /\ cap_in = NoCapConfig
    /\ cap_out = resolve_project_capacity(NoCapConfig)
    /\ \E w \in WeatherInputs : weather = transform_weather_input(w)
    /\ CurveIdle(NoInputs, "idle")
    /\ FinIdle
    /\ TablesIdle
    /\ catch_exceptions = FALSE
    /\ design_phases = <<>>
    /\ config = EmptyDict
    /\ \E names \in Lists(SubSeq(InstallPool, 1, 2)) :
          \E f \in [DOMAIN names -> ParseValues] :
             install_phases =
                [kind |-> "dict",
                 items |-> [i \in DOMAIN names |-> [name |-> names[i], val |-> f[i]]]]
    /\ phase_starts = <<>>
    /\ phase_times = <<>>
    /\ phase_costs = <<>>
    /\ output_logs = <<>>
    /\ phases = <<>>
    /\ detailed_outputs = <<>>
    /\ pc = "parse"
    /\ idx = 1
    /\ start = 0
    /\ defined = <<>>
    /\ variable = <<>>
    /\ zero = 0
    /\ progress = FALSE
    /\ raised = "none"
    /\ runs = <<>>

(***************************************************************************)
(* The results of a project that ran.  The logs are an input: a plain      *)
(* entry of the first phase, then the progress entries of the phases in    *)
(* the order the phases logged them.                                       *)
(***************************************************************************)
LogTimes == {MonthLen \div 2, MonthLen + MonthLen \div 2}

TimeLists(maxlen) == UNION {[1..n -> LogTimes] : n \in 0..maxlen}
\* the entries of one progress tag; every entry costs 3000
Tagged(name, tag, times) ==
    [j \in DOMAIN times |->
        [phase |-> name, keys |-> {"message", "time", "cost", "progress"},
         time |-> times[j], cost |-> 3000, progress |-> tag]]

project_logs_of(tu, st, ex, os, su) ==
    <<[phase |-> InstallPool[1], keys |-> {"message", "time", "cost"},
       time |-> MonthLen \div 2, cost |-> 3000]>>
        \o Tagged(InstallPool[1], "Substructure", su)
        \o Tagged(InstallPool[2], "Turbine", tu)
        \o Tagged(InstallPool[3], "Array String", st)
        \o Tagged(InstallPool[3], "Export System", ex)
        \o Tagged(InstallPool[3], "Offshore Substation", os)

\* a log with every tag, and one with none
FullLog ==
    project_logs_of(<<MonthLen \div 2, MonthLen \div 2>>, <<MonthLen \div 2>>,
                    <<MonthLen \div 2>>, <<MonthLen \div 2>>,
                    <<MonthLen \div 2, MonthLen \div 2>>)
BareLog == project_logs_of(<<>>, <<>>, <<>>, <<>>, <<>>)

\* an entry with a cost and a time and no progress tag, logged in the third
\* or in the twelfth month
LateTimes == {2 * MonthLen + MonthLen \div 2, 11 * MonthLen + MonthLen \div 2}
LateEntry(t) ==
    <<[phase |-> InstallPool[2], keys |-> {"message", "time", "cost"}, time |-> t, cost |-> 2000]>>

Fractions == {None, <<-1, 100>>, Zero, <<1, 100>>, Whole(1), <<101, 100>>}

FinConfig(lifetime, comm, decomm) ==
    LET base == [k \in {"project_lifetime", "discount_rate", "turbine_capex", "plant", "turbine"} |->
                    IF k = "project_lifetime" THEN Leaf(lifetime)
                    ELSE IF k = "discount_rate" THEN Leaf(Zero)
                    ELSE IF k = "turbine_capex" THEN Leaf(Whole(1))
                    ELSE IF k = "plant" THEN Dict([j \in {"num_turbines"} |-> Leaf(Whole(2))])
                    ELSE Dict([j \in {"turbine_rating"} |-> Leaf(Whole(2))])]
        c1 == IF comm = None THEN base ELSE Put(base, "commissioning", Leaf(comm))
    IN  IF decomm = None THEN c1 ELSE Put(c1, "decommissioning", Leaf(decomm))

\* the state run_project leaves, with the logs and the configuration chosen
InitFin ==
    /\ cap_pc = "resolved"
    /\ cap_in = NoCapConfig
    /\ cap_out = resolve_project_capacity(NoCapConfig)
    /\ weather = NoWeather
    /\ CurveIdle(NoInputs, "idle")
    /\ catch_exceptions = FALSE
    /\ design_phases = <<DesignPool[1]>>
    /\ install_phases = ListOf(SubSeq(InstallPool, 1, 3))
    /\ \/ /\ config = FinConfig(Whole(1), None, None)
          /\ \E tu \in TimeLists(MaxTurbines), st \in TimeLists(MaxStrings),
                ex \in {<<>>} \cup {<<t>> : t \in LogTimes},
                os \in {<<>>, <<MonthLen \div 2>>} :
                \* one substructure per turbine, all at one time, or none
                \E su \in {[j \in 1..Len(tu) |-> t] : t \in LogTimes} \cup {<<>>} :
                    output_logs = project_logs_of(tu, st, ex, os, su)
       \/ /\ \E l \in {Whole(0), Whole(1)}, f \in Fractions : config = FinConfig(l, f, f)
          /\ output_logs \in {FullLog, BareLog}
       \* a phase that started late logs before, or after, the other phases
       \/ /\ config = FinConfig(Whole(1), None, None)
          /\ \E t \in LateTimes, log \in {FullLog, BareLog} :
                output_logs \in {LateEntry(t) \o log, log \o LateEntry(t)}
    /\ phase_starts = <<>>
    /\ phase_times = <<>>
    /\ phase_costs =
          Put(Put(Put(<<>>, DesignPool[1], Num(1000)), InstallPool[1], Num(2000)),
              InstallPool[2], Num(3000))
    /\ progress_data = progress_logs(output_logs)
    /\ fin = [op |-> "none", exc |-> "none", value |-> <<>>]
    /\ TablesIdle
    /\ phases = <<>>
    /\ detailed_outputs = <<>>
    /\ pc = "done"
    /\ idx = 1
    /\ start = 0
    /\ defined = <<>>
    /\ variable = <<>>
    /\ zero = 0
    /\ progress = FALSE
    /\ raised = "none"
    /\ runs = <<>>

Read(op, r) ==
    /\ pc = "done"
    /\ fin.op = "none"
    /\ fin' = [op |-> op, exc |-> r.exc, value |-> r.value]
    /\ UNCHANGED <<capvars, runvars, weather, curvevars, tablevars, progress_data>>

ReadEnergizePoints ==
    LET ep == energize_points(progress_data)
    IN  Read("energize_points", [exc |-> ep.exc, value |-> <<ep.times, ep.turbines>>])
ReadMonthlyOpex == Read("monthly_opex", monthly_opex)
ReadMonthlyRevenue == Read("monthly_revenue", monthly_revenue)
ReadMonthlyExpenses == Read("monthly_expenses", monthly_expenses)
ReadCashFlow == Read("cash_flow", cash_flow)
ReadNpv == Read("npv", npv)
ReadCommissioning == Read("commissioning", commissioning)
ReadDecommissioning == Read("decommissioning", decommissioning)

NextFin ==
    \/ ReadEnergizePoints
    \/ ReadMonthlyOpex
    \/ ReadMonthlyRevenue
    \/ ReadMonthlyExpenses
    \/ ReadCashFlow
    \/ ReadNpv
    \/ ReadCommissioning
    \/ ReadDecommissioning

SpecFin == InitFin /\ [][NextFin]_vars

(***************************************************************************)
(* RegulatedPowerCurve.compute, one step per part and per loop iteration.  *)
(***************************************************************************)
\* the manager is not involved in a run of compute
ManagerIdle ==
    /\ cap_pc = "resolved"
    /\ cap_in = NoCapConfig
    /\ cap_out = resolve_project_capacity(NoCapConfig)
    /\ weather = NoWeather
    /\ catch_exceptions = FALSE
    /\ design_phases = <<>>
    /\ config = EmptyDict
    /\ install_phases = ListOf(<<>>)
    /\ phase_starts = <<>>
    /\ phase_times = <<>>
    /\ phase_costs = <<>>
    /\ output_logs = <<>>
    /\ phases = <<>>
    /\ detailed_outputs = <<>>
    /\ pc = "new"
    /\ idx = 1
    /\ start = 0
    /\ defined = <<>>
    /\ variable = <<>>
    /\ zero = 0
    /\ progress = FALSE
    /\ raised = "none"
    /\ runs = <<>>

InitCurve ==
    /\ ManagerIdle
    /\ FinIdle
    /\ TablesIdle
    /\ \E in \in CurveInputs : CurveIdle(in, "start")

\* Omega_tsr = Uhub * tsr / R_tip, of the grid as np.linspace made it
Omega_tsr == [j \in 1..n_pc |-> (linspace[j] * control_tsr) \div Rtip]

\* Omega_max = min([control_maxTS / R_tip, control_maxOmega * pi / 30])
Omega_max == Minimum(inputs.control_maxTS \div Rtip, RPM2RS(inputs.control_maxOmega))

\* np.maximum(np.minimum(Omega_tsr, Omega_max), control_minOmega * pi / 30)
limit_rotor_speed(w, wmax, wmin) == Maximum(Minimum(w, wmax), wmin)

\* the pitch a bounded search started at pitch0 returns
PitchFound(pitch0) == {pitch0 + 1}

\* compute lines 143-198: the baseline curve, the region indices, the guesses
Baseline ==
    /\ step = "start"
    /\ curve_raised = "none"
    /\ LET grid == linspace
           speed == [j \in 1..n_pc |->
                        limit_rotor_speed(Omega_tsr[j], Omega_max,
                                          RPM2RS(inputs.control_minOmega))]
           power == [j \in 1..n_pc |-> CSMDrivetrain(inputs.aero[j])]
           region_bool == {k \in Grid : At(power, k) >= control_ratedPower}
           U_2p5 == IF Omega_max < At(Omega_tsr, -1)
                    THEN interp(At(speed, -1), Omega_tsr, grid)
                    ELSE At(grid, -1)
           guess == IF At(inputs.aero, -1) > control_ratedPower
                    THEN interp(control_ratedPower, inputs.aero, grid)
                    ELSE At(grid, -1)
       IN  /\ Uhub' = grid
           /\ pitch' = [j \in 1..n_pc |-> 0]  \* control_pitch
           /\ Omega' = speed
           /\ Omega_rpm' = [j \in 1..n_pc |-> RS2RPM(speed[j])]
           /\ P_aero' = inputs.aero
           /\ P' = power
           /\ T' = [j \in 1..n_pc |-> Load]
           /\ Q' = [j \in 1..n_pc |-> Torque]
           /\ M' = [j \in 1..n_pc |-> Load]
           /\ Cp' = [j \in 1..n_pc |-> "Cp_aero*eff"]
           /\ Ct_aero' = [j \in 1..n_pc |-> Load]
           /\ Cq_aero' = [j \in 1..n_pc |-> Load]
           /\ Cm_aero' = [j \in 1..n_pc |-> Load]
           /\ i_3' = IF region_bool = {} THEN n_pc ELSE Min(region_bool) + 1
           /\ region3' = (region_bool /= {})
           /\ outputs' = IF Omega_max < At(Omega_tsr, -1)
                         THEN [outputs EXCEPT !.V_R25 = U_2p5] ELSE outputs
           /\ i_2p5' = FirstIndex([k \in Grid |-> U_2p5 <= At(grid, k)])
           /\ U_rated' = guess
           /\ i_rated' = FirstIndex([k \in Grid |-> guess <= At(grid, k)])
    /\ region2p5' = FALSE
    /\ loop_i' = 0
    /\ step' = "maximize"
    /\ UNCHANGED <<capvars, runvars, weather, finvars, tablevars, inputs, curve_raised>>

\* compute lines 207-231: one iteration of `for i in range(i_3)`
MaximizePower ==
    /\ step = "maximize"
    /\ curve_raised = "none"
    /\ loop_i < i_3
    /\ LET i == loop_i
       IN  IF At(Omega, i) = At(Omega_tsr, i)
           THEN /\ loop_i' = i + 1
                /\ step' = IF i + 1 < i_3 THEN "maximize" ELSE "rated"
                /\ UNCHANGED <<pitch, P_aero, P, T, Q, M, Cp, Ct_aero, Cq_aero, Cm_aero,
                               region2p5, i_2p5, i_3, i_rated>>
           ELSE \E a \in AeroLevels :
                \E x \in PitchFound(IF i = 0 THEN At(pitch, i) ELSE At(pitch, i - 1)) :
                LET found == (~region2p5) /\ At(Omega, i) = Omega_max
                                /\ CSMDrivetrain(a) < control_ratedPower
                    early == CSMDrivetrain(a) > control_ratedPower
                IN  /\ pitch' = Set(pitch, i, x)
                    /\ P_aero' = Set(P_aero, i, a)
                    /\ P' = Set(P, i, CSMDrivetrain(a))
                    /\ T' = Set(T, i, Load)
                    /\ Q' = Set(Q, i, Torque)
                    /\ M' = Set(M, i, Load)
                    /\ Cp' = Set(Cp, i, "Cp_aero*eff")
                    /\ Ct_aero' = Set(Ct_aero, i, Load)
                    /\ Cq_aero' = Set(Cq_aero, i, Load)
                    /\ Cm_aero' = Set(Cm_aero, i, Load)
                    /\ region2p5' = (region2p5 \/ found)
                    /\ i_2p5' = IF found THEN i ELSE i_2p5
                    /\ i_3' = IF early THEN i + 1 ELSE i_3
                    /\ i_rated' = IF early THEN i ELSE i_rated
                    /\ loop_i' = IF early THEN i ELSE i + 1
                    /\ step' = IF early \/ i + 1 >= i_3 THEN "rated" ELSE "maximize"
    /\ UNCHANGED <<capvars, runvars, weather, finvars, tablevars, inputs, Uhub, Omega, Omega_rpm, region3,
                   U_rated, outputs, curve_raised>>

\* the points strictly inside the bracket [a, b], whichever end is larger
Inside(a, b) == {a + ((b - a) * q) \div 4 : q \in 1..3}

\* compute lines 247-270: what the search for the rated speed at index i gives:
\* U_rated and pitch[i], or the ValueError of a search whose lower bound
\* exceeds its upper bound.  brentq takes its bracket in either order;
\* minimize (SLSQP) and minimize_scalar (bounded) reject lb > ub.
rated_search(i) ==
    LET lo == At(Uhub, i - 1)
        hi == At(Uhub, i + 1)
        ok(u, x, a) == [exc |-> "none", U_rated |-> u, pitch |-> x, aero |-> {a}]
        bad == [exc |-> "ValueError", U_rated |-> U_rated, pitch |-> At(pitch, i),
                aero |-> {RatedAero}]
    IN  IF region2p5
        THEN IF lo > hi THEN {bad}
             ELSE {ok(u, x, RatedAero) : u \in Inside(lo, hi),
                                         x \in {At(pitch, i - 1), At(pitch, i + 1)}}
                  \cup {[exc |-> "none", U_rated |-> U_rated, pitch |-> 0,
                         aero |-> AeroLevels]}
        ELSE {ok(u, 0, RatedAero) : u \in Inside(lo, hi)}
             \cup (IF lo > hi THEN {bad} ELSE {})

\* compute line 272: Omega_rated = min([U_rated * tsr / R_tip, Omega_max])
rated_rotor_speed(u) == Minimum((u * control_tsr) \div Rtip, Omega_max)

\* compute line 281: Uhub[i_rated] = U_rated
store_rated_speed(grid, k, u) == Set(grid, k, u)

\* compute lines 235-288: the rated speed, the clamp of the rotor speed, the
\* rated point and the rated outputs
SolveRated ==
    /\ step = "rated"
    /\ curve_raised = "none"
    /\ LET i == i_rated
           next == IF ~region3 THEN "outputs"
                   ELSE IF ~inputs.regulation_reg_III THEN "fixed"
                   ELSE IF i_3 < n_pc THEN "region3" ELSE "outputs"
           store(u, speed_rpm, pit, thrust, torque) ==
               /\ U_rated' = u
               /\ Uhub' = store_rated_speed(Uhub, i_rated, u)
               /\ outputs' = [outputs EXCEPT !.rated_V = u,
                                             !.rated_Omega = At(speed_rpm, i),
                                             !.rated_pitch = At(pit, i),
                                             !.rated_T = At(thrust, i),
                                             !.rated_Q = At(torque, i)]
               /\ loop_i' = IF next = "region3" THEN i_3 ELSE i
               /\ step' = next
               /\ curve_raised' = curve_raised
       IN  IF i < n_pc - 1
           THEN \E s \in rated_search(i) : \E a \in s.aero :
                IF s.exc /= "none"
                THEN /\ curve_raised' = s.exc
                     /\ UNCHANGED <<step, Uhub, Omega, Omega_rpm, pitch, P_aero, P, T, Q,
                                    M, Cp, Ct_aero, Cq_aero, Cm_aero, U_rated, loop_i,
                                    outputs>>
                ELSE LET Omega_rated == rated_rotor_speed(s.U_rated)
                         speed == SetFrom(Omega, i, [j \in DOMAIN Omega |-> Minimum(Omega[j], Omega_rated)])
                         speed_rpm == [j \in 1..n_pc |-> RS2RPM(speed[j])]
                         pit == Set(pitch, i, s.pitch)
                     IN  /\ Omega' = speed
                         /\ Omega_rpm' = speed_rpm
                         /\ pitch' = pit
                         /\ P_aero' = Set(P_aero, i, a)
                         /\ T' = Set(T, i, Load)
                         /\ Q' = Set(Q, i, Torque)
                         /\ M' = Set(M, i, Load)
                         /\ Cp' = Set(Cp, i, "Cp_aero*eff")
                         /\ Ct_aero' = Set(Ct_aero, i, Load)
                         /\ Cq_aero' = Set(Cq_aero, i, Load)
                         /\ Cm_aero' = Set(Cm_aero, i, Load)
                         /\ P' = Set(P, i, control_ratedPower)
                         /\ store(s.U_rated, speed_rpm, pit, T', Q')
           ELSE /\ store(U_rated, Omega_rpm, pitch, T, Q)
                /\ UNCHANGED <<Omega, Omega_rpm, pitch, P_aero, P, T, Q, M, Cp,
                               Ct_aero, Cq_aero, Cm_aero>>
    /\ UNCHANGED <<capvars, runvars, weather, finvars, tablevars, inputs, i_3, region3, i_2p5, i_rated,
                   region2p5>>

\* compute lines 299-312: one iteration of `for i in range(i_3, npc)`; brentq
\* finds the pitch of rated power, or the bounded minimisation of the
\* residual returns the pitch of its least value
Region3Pitch ==
    /\ step = "region3"
    /\ curve_raised = "none"
    /\ loop_i < n_pc
    /\ LET i == loop_i
       IN  \E a \in {RatedAero} \cup LeastResidual : \E x \in PitchFound(At(pitch, i - 1)) :
              /\ pitch' = Set(pitch, i, x)
              /\ P_aero' = Set(P_aero, i, a)
              /\ P' = Set(P, i, CSMDrivetrain(a))
              /\ T' = Set(T, i, Load)
              /\ Q' = Set(Q, i, Torque)
              /\ M' = Set(M, i, Load)
              /\ Cp' = Set(Cp, i, "Cp_aero*eff")
              /\ Ct_aero' = Set(Ct_aero, i, Load)
              /\ Cq_aero' = Set(Cq_aero, i, Load)
              /\ Cm_aero' = Set(Cm_aero, i, Load)
              /\ loop_i' = i + 1
              /\ step' = IF i + 1 < n_pc THEN "region3" ELSE "outputs"
    /\ UNCHANGED <<capvars, runvars, weather, finvars, tablevars, inputs, Uhub, Omega, Omega_rpm, i_3,
                   region3, i_2p5, i_rated, U_rated, region2p5, outputs, curve_raised>>

\* a first Region-3 index one too low
region3_from_rated(k) == IF k > 0 THEN k - 1 ELSE k

\* compute lines 315-323: the slices [i_3:]
region3_from(k) == k

\* compute lines 314-323: Region 3 without pitch regulation
Region3Fixed ==
    /\ step = "fixed"
    /\ curve_raised = "none"
    /\ LET from == region3_from(i_3)
           power == SetFrom(P, from, [j \in DOMAIN P |-> control_ratedPower])
       IN  /\ P' = power
           /\ T' = SetFrom(T, from, [j \in DOMAIN T |-> 0])
           /\ Q' = [j \in DOMAIN Q |->
                       IF j - 1 >= from THEN RatDiv(Whole(power[j]), Whole(Omega[j]))
                       ELSE Q[j]]
           /\ M' = SetFrom(M, from, [j \in DOMAIN M |-> 0])
           /\ pitch' = SetFrom(pitch, from, [j \in DOMAIN pitch |-> 0])
           /\ Cp' = SetFrom(Cp, from, [j \in DOMAIN Cp |-> "P/(0.5*rho*pi*R^2*U^3)"])
           /\ Ct_aero' = SetFrom(Ct_aero, from, [j \in DOMAIN Ct_aero |-> 0])
           /\ Cq_aero' = SetFrom(Cq_aero, from, [j \in DOMAIN Cq_aero |-> 0])
           /\ Cm_aero' = SetFrom(Cm_aero, from, [j \in DOMAIN Cm_aero |-> 0])
    /\ step' = "outputs"
    /\ UNCHANGED <<capvars, runvars, weather, finvars, tablevars, inputs, Uhub, Omega, Omega_rpm, P_aero,
                   i_3, region3, i_2p5, i_rated, U_rated, region2p5, loop_i, outputs,
                   curve_raised>>

\* compute lines 327-355: the arrays become the outputs and the spline is fit
StoreOutputs ==
    /\ step = "outputs"
    /\ curve_raised = "none"
    /\ step' = "done"
    /\ UNCHANGED <<capvars, runvars, weather, finvars, tablevars, inputs, Uhub, Omega, Omega_rpm, pitch,
                   P_aero, P, T, Q, M, Cp, Ct_aero, Cq_aero, Cm_aero, i_3, region3,
                   i_2p5, i_rated, U_rated, region2p5, loop_i, outputs, curve_raised>>

NextCurve ==
    \/ Baseline
    \/ MaximizePower
    \/ SolveRated
    \/ Region3Pitch
    \/ Region3Fixed
    \/ StoreOutputs

SpecCurve == InitCurve /\ [][NextCurve]_vars

\* Cp_Ct_Cq_Tables.compute called with the vectors a user set, or left at zeros
InitTables ==
    /\ ManagerIdle
    /\ CurveIdle(NoInputs, "idle")
    /\ FinIdle
    /\ \E pitch_in \in [1..n_pitch -> PitchLevels], tsr_in \in [1..n_tsr -> TsrLevels],
          U_in \in [1..n_U -> WindLevels] :
          tables = [step |-> "setup", pitch_vector_in |-> pitch_in, tsr_vector_in |-> tsr_in,
                    U_vector_in |-> U_in, pitch_vector |-> <<>>, tsr_vector |-> <<>>,
                    U_vector |-> <<>>, i |-> 0, j |-> 0, Cp_aero_table |-> <<>>]

NextTables == TablesSetup \/ TablesFill

SpecTables == InitTables /\ [][NextTables]_vars

(***************************************************************************)
(* run_project, one step per loop iteration.                               *)
(***************************************************************************)
\* an exception leaves run_project: the run stops where it is
Raise(e) == pc' = pc /\ raised' = e

\* run_all_design_phases: one iteration of `for name in phase_list`
DesignPhase ==
    /\ raised = "none"
    /\ pc = "design"
    /\ idx <= Len(design_phases)
    /\ \E o \in DesignOutcomes :
          LET r == run_design_phase(design_phases[idx], catch_exceptions, o)
          IN  /\ config' = r.config
              /\ phase_costs' = r.phase_costs
              /\ phase_times' = r.phase_times
              /\ phases' = r.phases
              /\ detailed_outputs' = r.detailed_outputs
              /\ runs' = r.runs
              /\ IF r.exc /= "none"
                 THEN Raise(r.exc) /\ idx' = idx
                 ELSE pc' = pc /\ raised' = raised /\ idx' = idx + 1
    /\ UNCHANGED <<capvars, restvars, catch_exceptions, design_phases, install_phases,
                   phase_starts, output_logs, start, defined, variable, zero,
                   progress>>

\* the install phases chosen while design phases are still to be run
DesignDone_early ==
    /\ raised = "none"
    /\ pc = "design"
    /\ pc' = IF install_phases.kind = "list" THEN "serial" ELSE "parse"
    /\ idx' = 1
    /\ start' = 0
    /\ UNCHANGED <<capvars, restvars, catch_exceptions, design_phases, install_phases, config,
                   phase_starts, phase_times, phase_costs, output_logs, phases,
                   detailed_outputs,
                   defined, variable, zero, progress, raised, runs>>

\* run_project lines 134-138: the design phases are done, choose the install mode
DesignDone ==
    /\ raised = "none"
    /\ pc = "design"
    /\ idx > Len(design_phases)
    /\ pc' = IF install_phases.kind = "list" THEN "serial" ELSE "parse"
    /\ idx' = 1
    /\ start' = 0
    /\ UNCHANGED <<capvars, restvars, catch_exceptions, design_phases, install_phases, config,
                   phase_starts, phase_times, phase_costs, output_logs, phases,
                   detailed_outputs,
                   defined, variable, zero, progress, raised, runs>>

\* a next start that is not rounded up
next_serial_start_unrounded(st, time) == st + time

\* run_multiple_phases_in_serial line 550
next_serial_start(st, time) == ceil(st + time)

\* run_multiple_phases_in_serial: one iteration of `for name in phase_list`
SerialPhase ==
    /\ raised = "none"
    /\ pc = "serial"
    /\ idx <= Len(install_phases.items)
    /\ \E o \in InstallOutcomes :
          LET name == install_phases.items[idx].name
              r == run_install_phase(name, start, catch_exceptions, o)
          IN  /\ phase_starts' = r.phase_starts
              /\ phase_costs' = r.phase_costs
              /\ phase_times' = r.phase_times
              /\ phases' = r.phases
              /\ detailed_outputs' = r.detailed_outputs
              /\ runs' = r.runs
              /\ IF r.exc /= "none"
                 THEN Raise(r.exc) /\ idx' = idx /\ UNCHANGED <<output_logs, start>>
                 ELSE /\ pc' = pc /\ raised' = raised /\ idx' = idx + 1
                      /\ IF r.returned
                         THEN /\ output_logs' = output_logs \o shift_logs(r.logs, start)
                              /\ start' = next_serial_start(start, r.time)
                         ELSE UNCHANGED <<output_logs, start>>
    /\ UNCHANGED <<capvars, restvars, catch_exceptions, design_phases, install_phases, config,
                   defined, variable, zero, progress>>

SerialDone ==
    /\ raised = "none"
    /\ pc = "serial"
    /\ idx > Len(install_phases.items)
    /\ pc' = "finish"
    /\ UNCHANGED <<capvars, restvars, catch_exceptions, design_phases, install_phases, config,
                   phase_starts, phase_times, phase_costs, output_logs, phases,
                   detailed_outputs,
                   idx, start, defined, variable, zero, progress, raised, runs>>

\* what one (k, v) of `phases` does in the loop of _parse_install_phase_values
parse_entry(e, w) ==
    LET none == [exc |-> "none", kind |-> "none", start |-> 0]
    IN  IF e.val.t = "num"
        THEN [none EXCEPT !.kind = "defined", !.start = ceil(e.val.v)]
        ELSE IF e.val.t = "date"
        THEN LET i == get_loc(w, strptime(e.val.v))
             IN  IF i.exc = "AttributeError" THEN [none EXCEPT !.exc = "ValueError"]
                 ELSE IF i.exc = "KeyError"
                 THEN [none EXCEPT !.exc = "WeatherProfileError"]
                 ELSE [none EXCEPT !.kind = "defined", !.start = i.loc * Scale]
        ELSE IF e.val.t = "dep" THEN [none EXCEPT !.kind = "depends"]
        ELSE [none EXCEPT !.exc = "ValueError"]

\* _parse_install_phase_values: the exception it raises and its two dicts,
\* each in the iteration order of `phases`
parse_install_phase_values(items, w) ==
    LET out == [i \in DOMAIN items |-> parse_entry(items[i], w)]
        failing == {i \in DOMAIN items : out[i].exc /= "none"}
        num == SelectSeq([i \in DOMAIN items |-> [e |-> items[i], o |-> out[i]]],
                         LAMBDA x : x.o.kind = "defined")
        dep == SelectSeq(items, LAMBDA e : e.val.t = "dep")
    IN  [exc |-> IF failing /= {} THEN out[Min(failing)].exc
                 ELSE IF num = <<>> THEN "ValueError" ELSE "none",
         defined |-> [i \in DOMAIN num |-> [name |-> num[i].e.name, start |-> num[i].o.start]],
         depends |-> [i \in DOMAIN dep |->
                        [name |-> dep[i].name, target |-> dep[i].val.target,
                         perc |-> dep[i].val.perc]]]

\* run_multiple_phases_overlapping lines 563-564
ParsePhases ==
    /\ raised = "none"
    /\ pc = "parse"
    /\ LET r == parse_install_phase_values(install_phases.items, weather)
       IN  IF r.exc /= "none"
           THEN Raise(r.exc) /\ UNCHANGED <<defined, variable, zero, idx>>
           ELSE /\ defined' = r.defined
                /\ variable' = r.depends
                /\ zero' = Min({r.defined[i].start : i \in DOMAIN r.defined})
                /\ idx' = 1
                /\ pc' = "defined"
                /\ raised' = raised
    /\ UNCHANGED <<capvars, restvars, catch_exceptions, design_phases, install_phases, config,
                   phase_starts, phase_times, phase_costs, output_logs, phases,
                   detailed_outputs,
                   start, progress, runs>>

\* run_multiple_phases_overlapping: one iteration of `for name, start in defined.items()`
DefinedPhase ==
    /\ raised = "none"
    /\ pc = "defined"
    /\ idx <= Len(defined)
    /\ \E o \in InstallOutcomes :
          LET name == defined[idx].name
              st == defined[idx].start
              r == run_install_phase(name, st, catch_exceptions, o)
          IN  /\ phase_starts' = r.phase_starts
              /\ phase_costs' = r.phase_costs
              /\ phase_times' = r.phase_times
              /\ phases' = r.phases
              /\ detailed_outputs' = r.detailed_outputs
              /\ runs' = r.runs
              /\ IF r.exc /= "none"
                 THEN Raise(r.exc) /\ idx' = idx /\ UNCHANGED output_logs
                 ELSE /\ pc' = pc /\ raised' = raised /\ idx' = idx + 1
                      /\ IF r.returned
                         THEN output_logs' = output_logs \o shift_logs(r.logs, st - zero)
                         ELSE UNCHANGED output_logs
    /\ UNCHANGED <<capvars, restvars, catch_exceptions, design_phases, install_phases, config,
                   start, defined, variable, zero, progress>>

\* run_multiple_phases_overlapping line 584 and run_dependent_phases line 600
DefinedDone ==
    /\ raised = "none"
    /\ pc = "defined"
    /\ idx > Len(defined)
    /\ pc' = "dependent"
    /\ idx' = 1
    /\ progress' = FALSE
    /\ UNCHANGED <<capvars, restvars, catch_exceptions, design_phases, install_phases, config,
                   phase_starts, phase_times, phase_costs, output_logs, phases,
                   detailed_outputs,
                   start, defined, variable, zero, raised, runs>>

\* the exception classes `except KeyError` catches: PhaseNotFound and the
\* other manager exceptions derive from Exception, not from KeyError
KeyErrors == {"KeyError"}

\* get_dependency_start_time raises KeyError when the target has no entry
dependency_known(target) ==
    target \in DOMAIN phase_starts /\ target \in DOMAIN phase_times

\* a start time that waits for the whole target phase
get_dependency_start_time_full(target, perc) ==
    phase_starts[target] + phase_times[target].num

get_dependency_start_time(target, perc) ==
    LET st == phase_starts[target]
        elapsed == phase_times[target].num
    IN  st + (elapsed * perc) \div PercDen

\* the catch_exceptions that reaches run_install_phase from run_dependent_phases:
\* line 584 calls run_dependent_phases(variable, zero) without **kwargs
dependent_catch(catch) == FALSE

\* run_dependent_phases: one iteration of `for name, (target, perc) in phases.items()`
DependentPhase ==
    /\ raised = "none"
    /\ pc = "dependent"
    /\ idx <= Len(variable)
    /\ LET name == variable[idx].name
           target == variable[idx].target
           perc == variable[idx].perc
       IN  IF ~dependency_known(target)
           THEN /\ idx' = idx + 1
                /\ UNCHANGED <<phase_starts, phase_times, phase_costs, phases,
                               detailed_outputs, runs,
                               output_logs, progress, pc, raised>>
           ELSE \E o \in InstallOutcomes :
                LET st == get_dependency_start_time(target, perc)
                    r == run_install_phase(name, st, dependent_catch(catch_exceptions), o)
                IN  /\ phase_starts' = r.phase_starts
                    /\ phase_costs' = r.phase_costs
                    /\ phase_times' = r.phase_times
                    /\ phases' = r.phases
                    /\ detailed_outputs' = r.detailed_outputs
                    /\ runs' = r.runs
                    /\ IF r.exc \in KeyErrors
                       THEN /\ idx' = idx + 1
                            /\ UNCHANGED <<output_logs, progress, pc, raised>>
                       ELSE IF r.exc /= "none"
                       THEN Raise(r.exc) /\ UNCHANGED <<idx, output_logs, progress>>
                       ELSE /\ progress' = TRUE
                            /\ idx' = idx + 1
                            /\ pc' = pc /\ raised' = raised
                            /\ IF r.returned
                               THEN output_logs' = output_logs \o shift_logs(r.logs, st - zero)
                               ELSE UNCHANGED output_logs
    /\ UNCHANGED <<capvars, restvars, catch_exceptions, design_phases, install_phases, config,
                   start, defined, variable, zero>>

\* a check that leaves out `phases and`
pass_failed_unguarded(phs, prog) == prog = FALSE

\* run_dependent_phases line 628
pass_failed(phs, prog) == phs /= <<>> /\ prog = FALSE

\* run_dependent_phases lines 628-632: the pass over phases.items() is over
EndPass ==
    /\ raised = "none"
    /\ pc = "dependent"
    /\ idx > Len(variable)
    /\ IF pass_failed(variable, progress)
       THEN Raise("PhaseDependenciesInvalid")
       ELSE pc' = "finish" /\ raised' = raised
    /\ UNCHANGED <<capvars, restvars, catch_exceptions, design_phases, install_phases, config,
                   phase_starts, phase_times, phase_costs, output_logs, phases,
                   detailed_outputs,
                   idx, start, defined, variable, zero, progress, runs>>

\* project_logs: raises when no log was collected
project_logs_exc(logs) == IF logs = <<>> THEN "Exception" ELSE "none"

\* run_project line 140: self.progress = ProjectProgress(self.progress_logs)
Finish ==
    /\ raised = "none"
    /\ pc = "finish"
    /\ IF project_logs_exc(output_logs) /= "none"
       THEN Raise(project_logs_exc(output_logs)) /\ progress_data' = progress_data
       ELSE /\ pc' = "done" /\ raised' = raised
            /\ progress_data' = progress_logs(output_logs)
    /\ UNCHANGED <<capvars, weather, curvevars, fin, tablevars, catch_exceptions, design_phases, install_phases, config,
                   phase_starts, phase_times, phase_costs, output_logs, phases,
                   detailed_outputs,
                   idx, start, defined, variable, zero, progress, runs>>

Next ==
    \/ DesignPhase
    \/ DesignDone
    \/ SerialPhase
    \/ SerialDone
    \/ ParsePhases
    \/ DefinedPhase
    \/ DefinedDone
    \/ DependentPhase
    \/ EndPass
    \/ Finish

Spec == Init /\ [][Next]_vars

NextCap == CapResolve

SpecCap == InitCap /\ [][NextCap]_vars

NextParse == ParsePhases

SpecParse == InitParse /\ [][NextParse]_vars

(***************************************************************************)
(* Vocabulary of the properties.                                           *)
(***************************************************************************)
Last(q) == q[Len(q)]
ListedNames == {install_phases.items[i].name : i \in DOMAIN install_phases.items}
DefinedNames == {defined[i].name : i \in DOMAIN defined}
RunsOf(name) == {i \in DOMAIN runs : runs[i].name = name}
Succeeded(name) == \E i \in RunsOf(name) : runs[i].exc = "none"
NoPhaseRaised == \A i \in DOMAIN runs : runs[i].exc = "none"
Overlapping == install_phases.kind = "dict"
Serial == install_phases.kind = "list"
\* run_multiple_phases_overlapping has returned
OverlappingReturned == Overlapping /\ pc = "finish"
\* the dependent entries the pass has visited so far
Visited == IF pc = "dependent" THEN 1..(idx - 1)
           ELSE IF pc = "finish" /\ Overlapping THEN DOMAIN variable ELSE {}

\* the names of a mapping that a correct resolution reaches: the entries with
\* a numeric start, then every entry whose target is reached
RECURSIVE Closure(_, _)
Closure(S, n) ==
    IF n = 0 THEN S
    ELSE Closure(S \cup {install_phases.items[i].name : i \in
                            {j \in DOMAIN install_phases.items :
                                /\ install_phases.items[j].val.t = "dep"
                                /\ install_phases.items[j].val.target \in S}},
                 n - 1)

ResolvableNames ==
    Closure({install_phases.items[i].name : i \in
                {j \in DOMAIN install_phases.items : install_phases.items[j].val.t = "num"}},
            Len(install_phases.items))

\* a mapping without cycles, missing targets or unknown names
ValidMapping ==
    /\ Overlapping
    /\ \A i \in DOMAIN install_phases.items :
          /\ install_phases.items[i].val.t \in {"num", "dep"}
          /\ install_phases.items[i].name \in ResolvableNames
          /\ find_key_match(install_phases.items[i].name) /= NoClass

(***************************************************************************)
(* C1.  Whenever run_multiple_phases_overlapping returns normally, every   *)
(* dependent entry has been executed and has a start time in phase_starts, *)
(* whatever the order of the mapping, also when a dependent's target is a  *)
(* dependent listed later.  (Stated for the mappings every entry of which  *)
(* can be resolved and the runs in which no phase object raised, so that   *)
(* only the scheduling decides it.)                                        *)
(***************************************************************************)
C1_AllDependentsResolved ==
    (OverlappingReturned /\ ValidMapping /\ NoPhaseRaised) =>
        \A i \in DOMAIN variable :
            /\ variable[i].name \in DOMAIN phase_starts
            /\ Succeeded(variable[i].name)

(***************************************************************************)
(* C2.  PhaseDependenciesInvalid is raised exactly when one full pass over *)
(* a non-empty set of dependent entries has executed none of them, and     *)
(* then no dependent phase has been executed.                              *)
(***************************************************************************)
C2_UnproductivePassRaises ==
    /\ raised = "PhaseDependenciesInvalid" =>
          /\ pc = "dependent" /\ idx = Len(variable) + 1
          /\ variable /= <<>>
          /\ \A i \in DOMAIN variable :
                /\ variable[i].name \notin DOMAIN phase_starts
                /\ ~Succeeded(variable[i].name)
                /\ Cardinality(RunsOf(variable[i].name)) <= 1
    /\ (OverlappingReturned /\ variable /= <<>>) =>
          \E i \in DOMAIN variable : variable[i].name \in DOMAIN phase_starts

\* a pass that executed nothing because a target is absent from the mapping
C2_Witness ==
    /\ raised = "PhaseDependenciesInvalid"
    /\ \E i \in DOMAIN variable : variable[i].target \notin ListedNames
    /\ \E i \in DOMAIN defined : Succeeded(defined[i].name)

(***************************************************************************)
(* C3.  A dependent phase (target, perc) is run with                       *)
(* start = phase_starts[target] + phase_times[target] * perc, the target   *)
(* having been executed before it.                                         *)
(***************************************************************************)
C3_DependentStart ==
    \A i \in DOMAIN variable : \A k \in RunsOf(variable[i].name) :
        LET target == variable[i].target
        IN  /\ target \in DOMAIN phase_starts
            /\ \E j \in RunsOf(target) : j < k /\ runs[j].exc = "none"
            /\ IsNum(phase_times[target])
            /\ PercDen * runs[k].start =
                  PercDen * phase_starts[target]
                  + phase_times[target].num * variable[i].perc
            /\ runs[k].exc = "none" => phase_starts[variable[i].name] = runs[k].start

\* A starts at 0 and lasts one hour, B: (A, 0.5) starts at half an hour
C3_Witness ==
    \E i \in DOMAIN variable :
        /\ variable[i].perc * 2 = PercDen
        /\ variable[i].name \in DOMAIN phase_starts
        /\ variable[i].target \in DOMAIN phase_starts
        /\ phase_starts[variable[i].target] = 0
        /\ phase_times[variable[i].target] = Num(Scale)
        /\ phase_starts[variable[i].name] = HalfHour

(***************************************************************************)
(* C4.  With install_phases a list, the phases are run in list order, the  *)
(* first at 0 and each later one at ceil(start + duration) of the phase    *)
(* executed before it, so no two executed phases overlap.                  *)
(***************************************************************************)
InstallRuns == SelectSeq(runs, LAMBDA r : r.kind = "install")

\* s is the least whole hour at or after the time x
IsCeilOf(s, x) == s % Scale = 0 /\ s >= x /\ s - x < Scale

C4_SerialStarts ==
    Serial =>
        LET R == InstallRuns
        IN  /\ \A j \in DOMAIN R :
                  /\ R[j].name = install_phases.items[j].name
                  /\ j = 1 => R[j].start = 0
                  /\ (j > 1 /\ R[j - 1].exc = "none") =>
                        IsCeilOf(R[j].start, R[j - 1].start + R[j - 1].time)
                  /\ (j > 1 /\ R[j - 1].exc /= "none") => R[j].start = R[j - 1].start
                  /\ R[j].exc = "none" => phase_starts[R[j].name] = R[j].start
            /\ \A j, k \in DOMAIN R :
                  (j < k /\ R[j].exc = "none" /\ R[k].exc = "none") =>
                      R[j].start + R[j].time <= R[k].start

\* a half-hour phase followed by a phase that starts at the full hour
C4_Witness ==
    /\ Serial
    /\ Len(InstallRuns) >= 2
    /\ InstallRuns[1].exc = "none" /\ InstallRuns[1].time = HalfHour
    /\ InstallRuns[2].exc = "none" /\ InstallRuns[2].start = Scale

(***************************************************************************)
(* C5.  Design phases run in listed order; merging a design_result never   *)
(* changes a (nested) key that is already in the configuration, adds the   *)
(* keys that are not, and every later design phase is handed them.         *)
(***************************************************************************)
RECURSIVE Preserved(_, _)
Preserved(old, new) ==
    \A k \in DOMAIN old :
        /\ k \in DOMAIN new
        /\ IF IsDict(old[k])
           THEN IsDict(new[k]) /\ Preserved(old[k].dict, new[k].dict)
           ELSE new[k] = old[k]

RECURSIVE Added(_, _, _)
Added(old, res, new) ==
    /\ DOMAIN new = DOMAIN old \cup DOMAIN res
    /\ \A k \in DOMAIN res :
          /\ k \notin DOMAIN old => new[k] = res[k]
          /\ (k \in DOMAIN old /\ IsDict(old[k]) /\ IsDict(res[k])) =>
                IsDict(new[k]) /\ Added(old[k].dict, res[k].dict, new[k].dict)

C5_Step ==
    /\ Preserved(config, config')
    /\ (pc = "design" /\ Len(runs') = Len(runs) + 1) =>
          LET run == Last(runs')
          IN  /\ run.name = design_phases[Len(runs) + 1]
              /\ \A k \in DOMAIN config \ phase_dict :
                    /\ k \in DOMAIN run.cfg
                    /\ name_key(run.name) \notin DOMAIN config => run.cfg[k] = config[k]
              /\ IF run.exc = "none"
                 THEN Added(config, run.result, config')
                 ELSE config' = config

C5_FirstWriterWins == [][C5_Step]_vars

\* two design phases ran; the first wrote monopile.length, the second added
\* monopile.mass and could not change monopile.length
C5_Witness ==
    /\ Len(runs) = 2
    /\ runs[1].kind = "design" /\ runs[1].exc = "none"
    /\ runs[2].kind = "design" /\ runs[2].exc = "none"
    /\ "monopile" \in DOMAIN runs[1].result
    /\ "monopile" \in DOMAIN runs[2].result
    /\ runs[2].result["monopile"] /= runs[1].result["monopile"]
    /\ "monopile" \in DOMAIN config
    /\ config["monopile"] =
          Dict([j \in {"length", "mass"} |-> IF j = "length" THEN Leaf(1) ELSE Leaf(2)])

(***************************************************************************)
(* C6.  With catch_exceptions=True an exception raised by any phase        *)
(* object is caught and recorded as the exception's class name in          *)
(* phase_costs and phase_times.                                            *)
(***************************************************************************)
C6_FailuresAreRecorded ==
    catch_exceptions =>
        \A i \in DOMAIN runs :
            runs[i].exc /= "none" =>
                /\ runs[i].name \in DOMAIN phase_costs
                /\ phase_costs[runs[i].name] = Str(runs[i].exc)
                /\ phase_times[runs[i].name] = Str(runs[i].exc)

(***************************************************************************)
(* C7.  run_project returns normally or ends with a configuration or       *)
(* dependency error (or with the exception of a phase it was not asked to  *)
(* catch); in particular it returns normally when no log was produced.     *)
(***************************************************************************)
ConfigurationErrors ==
    {"PhaseNotFound", "PhaseDependenciesInvalid", "WeatherProfileError", "ValueError"}

C7_OnlyConfigurationErrors ==
    raised /= "none" =>
        \/ raised \in ConfigurationErrors
        \/ runs /= <<>> /\ Last(runs).exc = raised

(***************************************************************************)
(* C8.  resolve_project_capacity, for all non-negative values: capacity    *)
(* and rating give num_turbines = capacity / rating; rating and            *)
(* num_turbines give capacity = rating * num_turbines; three consistent    *)
(* values are returned unchanged and every inconsistent triple raises.     *)
(***************************************************************************)
C8_ResolveCapacity ==
    cap_pc = "resolved" =>
        LET c == cap_in
            r == cap_out
        IN  /\ (c.capacity /= None /\ c.turbine_rating /= None
                  /\ c.turbine_rating[1] /= 0 /\ c.num_turbines = None) =>
                  /\ r.raised = "none"
                  /\ r.config = [c EXCEPT !.num_turbines =
                                    RatDiv(c.capacity, c.turbine_rating)]
            /\ (c.capacity = None /\ c.turbine_rating /= None /\ c.num_turbines /= None) =>
                  /\ r.raised = "none"
                  /\ r.config = [c EXCEPT !.capacity =
                                    RatMul(c.turbine_rating, c.num_turbines)]
            /\ (c.capacity /= None /\ c.turbine_rating /= None /\ c.num_turbines /= None) =>
                  IF c.capacity = RatMul(c.turbine_rating, c.num_turbines)
                  THEN r = [raised |-> "none", config |-> c]
                  ELSE r.raised /= "none"

(***************************************************************************)
(* C9.  Within one run_project call every listed phase is executed exactly *)
(* once, and what an executed phase wrote to phase_starts, phase_costs,    *)
(* phase_times and the global log is not changed afterwards.  (The first   *)
(* half is stated for the runs that return normally, in which no phase     *)
(* object raised, over a mapping every entry of which can be resolved.)    *)
(***************************************************************************)
C9_ExactlyOnce ==
    (pc = "done" /\ NoPhaseRaised /\ (Overlapping => ValidMapping)) =>
        \A n \in ListedNames \cup Range(design_phases) :
            Cardinality(RunsOf(n)) = 1

\* the second half of C9 on its own: entries and log lines only accumulate
C9_WrittenOnce ==
    [][/\ \A n \in DOMAIN phase_starts :
             n \in DOMAIN phase_starts' /\ phase_starts'[n] = phase_starts[n]
       /\ \A n \in DOMAIN phase_costs :
             /\ phase_costs'[n] = phase_costs[n]
             /\ phase_times'[n] = phase_times[n]
       /\ Len(output_logs') >= Len(output_logs)
       /\ SubSeq(output_logs', 1, Len(output_logs)) = output_logs
       /\ \A n \in ListedNames \cup Range(design_phases) :
             Cardinality(RunsOf(n)) <= 1]_vars

(***************************************************************************)
(* C10.  A phase name resolves to the registered class named by the part   *)
(* of the name before its first '_' or space; reaching a name that matches *)
(* no class raises PhaseNotFound, with or without catch_exceptions, and    *)
(* the name is never recorded as a sentinel nor passed over.               *)
(***************************************************************************)
Registered(name) == split_head(name) \in {<<c>> : c \in phase_dict}

ReachedName ==
    IF pc = "design" /\ idx <= Len(design_phases) THEN design_phases[idx]
    ELSE IF pc = "serial" /\ idx <= Len(install_phases.items)
         THEN install_phases.items[idx].name
    ELSE IF pc = "defined" /\ idx <= Len(defined) THEN defined[idx].name
    ELSE IF pc = "dependent" /\ idx <= Len(variable) THEN variable[idx].name
    ELSE <<>>

C10_PhaseLookup ==
    /\ \A i \in DOMAIN runs :
          runs[i].class \in phase_dict /\ <<runs[i].class>> = split_head(runs[i].name)
    /\ \A n \in DOMAIN phase_costs :
          phase_costs[n] /= Str("PhaseNotFound") /\ phase_times[n] /= Str("PhaseNotFound")
    /\ raised = "PhaseNotFound" =>
          ReachedName /= <<>> /\ ~Registered(ReachedName) /\ RunsOf(ReachedName) = {}
    /\ \A i \in DOMAIN design_phases :
          (pc /= "design" \/ i < idx) => Registered(design_phases[i])
    /\ \A i \in DOMAIN install_phases.items :
          (Serial /\ (pc = "finish" \/ pc = "done" \/ (pc = "serial" /\ i < idx))) =>
              Registered(install_phases.items[i].name)
    /\ \A i \in DOMAIN defined :
          (pc \in {"dependent", "finish", "done"} \/ (pc = "defined" /\ i < idx)) =>
              Registered(defined[i].name)
    /\ \A i \in Visited :
          ~Registered(variable[i].name) =>
              ~(variable[i].target \in DefinedNames /\ Succeeded(variable[i].target))

\* an unregistered name reached as a dependent phase under catch_exceptions,
\* after a name with a suffix was resolved and run
C10_Witness ==
    /\ raised = "PhaseNotFound"
    /\ catch_exceptions
    /\ pc = "dependent"
    /\ \E i \in DOMAIN runs : Len(runs[i].name) > 1 /\ runs[i].exc = "none"

(***************************************************************************)
(* C11.  In a mapping a calendar date is resolved to the position of the   *)
(* weather-index timestamp nearest to it; WeatherProfileError is raised    *)
(* exactly when a date lies outside the range the weather profile covers;  *)
(* ValueError is raised when a date is given without a weather profile and *)
(* when no entry has a date or numeric start.  (Stated for the mappings    *)
(* without a value of an unrecognised type, over a datetime-indexed        *)
(* profile or none.)                                                       *)
(***************************************************************************)
DateItems == {i \in DOMAIN install_phases.items : install_phases.items[i].val.t = "date"}
StartItems ==
    {i \in DOMAIN install_phases.items : install_phases.items[i].val.t \in {"date", "num"}}
DateOf(i) == strptime(install_phases.items[i].val.v)
Covered(t) ==
    weather.index /= <<>> /\ weather.index[1] <= t /\ t <= Last(weather.index)
Dist(a, b) == IF a >= b THEN a - b ELSE b - a
\* the positions (from 0) of the timestamps nearest to t
Nearest(t) ==
    {i - 1 : i \in {j \in DOMAIN weather.index :
                       \A k \in DOMAIN weather.index :
                          Dist(weather.index[j], t) <= Dist(weather.index[k], t)}}
Parsed == pc = "defined" \/ (pc = "parse" /\ raised /= "none")
RecognisedValues ==
    \A i \in DOMAIN install_phases.items :
       install_phases.items[i].val.t \in {"num", "date", "dep"}

C11_DateStarts ==
    (Parsed /\ RecognisedValues /\ weather.kind /= "RangeIndex") =>
        /\ (weather.kind = "None" /\ DateItems /= {}) => raised = "ValueError"
        /\ StartItems = {} => raised = "ValueError"
        /\ weather.kind = "DatetimeIndex" =>
              /\ raised = "WeatherProfileError" <=> \E i \in DateItems : ~Covered(DateOf(i))
              /\ raised = "none" =>
                    \A i \in DateItems :
                       \E j \in DOMAIN defined :
                          /\ defined[j].name = install_phases.items[i].name
                          /\ \E q \in Nearest(DateOf(i)) : defined[j].start = q * Scale

(***************************************************************************)
(* C12.  For valid control limits (the minimum rotor speed not above the   *)
(* maximum), every entry of the output Omega of compute is at most         *)
(* min(control_maxTS / Rtip, control_maxOmega) and at least                *)
(* control_minOmega, the points at and after the rated index included.     *)
(***************************************************************************)
MaxRotorSpeed == Minimum(RS2RPM(inputs.control_maxTS \div Rtip), inputs.control_maxOmega)
ValidLimits == inputs.control_minOmega <= MaxRotorSpeed
Computed == step = "done"

C12_OmegaWithinLimits ==
    (Computed /\ ValidLimits) =>
        \A k \in Grid :
            /\ At(Omega_rpm, k) <= MaxRotorSpeed
            /\ At(Omega_rpm, k) >= inputs.control_minOmega

\* the upper half of C12 on its own
C12_UpperLimit ==
    (Computed /\ ValidLimits) => \A k \in Grid : At(Omega_rpm, k) <= MaxRotorSpeed

(***************************************************************************)
(* C13.  With regulation_reg_III = True the output P is non-decreasing     *)
(* over the grid indices up to the rated index and equals                  *)
(* control_ratedPower at every grid index at or after the rated index.     *)
(* (Stated for the runs with a rated crossing whose baseline aerodynamic   *)
(* power is non-decreasing in the wind speed.)                             *)
(***************************************************************************)
NonDecreasing(a) == \A j, k \in DOMAIN a : j <= k => a[j] <= a[k]

C13_RegulatedPower ==
    (Computed /\ inputs.regulation_reg_III /\ region3 /\ NonDecreasing(inputs.aero)) =>
        /\ \A j, k \in Grid : (j <= k /\ k <= i_rated) => At(P, j) <= At(P, k)
        /\ \A k \in Grid : k >= i_rated => At(P, k) = control_ratedPower

(***************************************************************************)
(* C14.  The output wind-speed array V (Uhub after the rated wind speed    *)
(* has been stored at the rated index) is increasing in the grid index,    *)
(* wherever the rated index lies: first point, interior point, last point. *)
(***************************************************************************)
Increasing(a) == \A j, k \in DOMAIN a : j < k => a[j] < a[k]
RatedStored == step \in {"region3", "fixed", "outputs", "done"}

C14_WindSpeedsIncrease == RatedStored => Increasing(Uhub)

(***************************************************************************)
(* C15.  If the electrical power is below rated power at every grid point  *)
(* (at the baseline and after the Region-2 sweep), Region 3 is absent: the *)
(* rated index is the last grid point, the rated-speed solve and the       *)
(* Region-3 handling are skipped, rated_V = control_Vout, the rated        *)
(* scalars are those of the last grid point and no power is overwritten    *)
(* with rated power.                                                       *)
(***************************************************************************)
BelowRated ==
    /\ \A j \in DOMAIN inputs.aero : CSMDrivetrain(inputs.aero[j]) < control_ratedPower
    /\ \A k \in Grid : At(P, k) <= control_ratedPower
    /\ i_3 = n_pc

C15_NoRegion3 ==
    (Computed /\ BelowRated) =>
        /\ ~region3
        /\ i_rated = n_pc - 1
        /\ outputs.rated_V = control_Vout
        /\ outputs.rated_Omega = At(Omega_rpm, -1)
        /\ outputs.rated_pitch = At(pitch, -1)
        /\ outputs.rated_T = At(T, -1)
        /\ outputs.rated_Q = At(Q, -1)
        /\ \A k \in Grid : At(P, k) < control_ratedPower
        /\ Uhub = linspace

(***************************************************************************)
(* C16.  With Region 3 regulation disabled and a rated crossing present,   *)
(* the Region-3 step leaves every grid point with index >= i_3 with        *)
(* P = rated power, T = 0, M = 0, pitch = 0, Q = P / Omega and             *)
(* Ct_aero = Cq_aero = Cm_aero = 0, and changes no value at an index       *)
(* below i_3.                                                              *)
(***************************************************************************)
Arrays == <<P, T, Q, M, pitch, Cp, Ct_aero, Cq_aero, Cm_aero, Uhub, Omega, Omega_rpm, P_aero>>

C16_Step ==
    (step = "fixed" /\ step' = "outputs") =>
        /\ region3 /\ ~inputs.regulation_reg_III
        /\ \A k \in Grid :
              IF k >= i_3
              THEN /\ At(P', k) = control_ratedPower
                   /\ At(T', k) = 0 /\ At(M', k) = 0 /\ At(pitch', k) = 0
                   /\ At(Q', k)[1] * At(Omega', k) = At(P', k) * At(Q', k)[2]
                   /\ At(Ct_aero', k) = 0 /\ At(Cq_aero', k) = 0 /\ At(Cm_aero', k) = 0
              ELSE \A j \in DOMAIN Arrays : At(Arrays'[j], k) = At(Arrays[j], k)

TimesOf(tag) == parse_logs(progress_data, tag).pts
ExportDone == MaxOf(Range(TimesOf("Export System")) \cup Range(TimesOf("Offshore Substation")))
\* the turbines are dealt to the strings in order, per_string to each
PerString ==
    (Len(TimesOf("Turbine")) + Len(TimesOf("Array String")) - 1) \div Len(TimesOf("Array String"))
Assigned(l, j) == SubSeq(l, Minimum((j - 1) * PerString, Len(l)) + 1, Minimum(j * PerString, Len(l)))
EnergizeTime(j) ==
    MaxOf({TimesOf("Array String")[j], ExportDone}
          \cup Range(Assigned(TimesOf("Substructure"), j))
          \cup Range(Assigned(TimesOf("Turbine"), j)))
C17_EnergizePoints ==
    (fin.op = "energize_points" /\ fin.exc = "none") =>
        /\ Len(fin.value[1]) = Len(TimesOf("Array String"))
        /\ Len(fin.value[2]) = Len(TimesOf("Array String"))
        /\ SumSeq(fin.value[2]) = Len(TimesOf("Turbine"))
        /\ \A j \in DOMAIN fin.value[1] : fin.value[1][j] = EnergizeTime(j)
        /\ \A j \in DOMAIN fin.value[2] : fin.value[2][j] = Len(Assigned(TimesOf("Turbine"), j))
\* what the code does keep: the counts add up, and the times it returns are
\* the maxima of the strings it paired
C17_CountsAddUp ==
    (fin.op = "energize_points" /\ fin.exc = "none") =>
        /\ SumSeq(fin.value[2]) = Len(TimesOf("Turbine"))
        /\ \A j \in DOMAIN fin.value[1] : fin.value[1][j] = EnergizeTime(j)

\* C18: in every month i, monthly_revenue[i] and monthly_opex[i] are computed
\* from the turbines of the array strings whose energize time falls in month
\* i or earlier, in whatever order the strings are energized:
\* revenue[i] = energized_turbines(i) * turbine_rating * ncf * 730 * price.
MonthOf(t) == t \div MonthLen + 1
energized_turbines(i) ==
    LET ep == energize_points(progress_data)
    IN  SumSeq([j \in DOMAIN ep.times |->
            IF MonthOf(ep.times[j]) <= i THEN ep.turbines[j] ELSE 0])
RevenueOf(n) ==
    RatMul(RatMul(RatMul(Whole(n), turbine_rating),
                  RatMul(get(config, "ncf", <<2, 5>>), Whole(MonthHours))),
           get(config, "offtake_price", Whole(80)))
OpexOf(n) ==
    RatDiv(RatMul(RatMul(Whole(n), turbine_rating),
                  RatMul(get(config, "opex_rate", Whole(150)), Whole(1000))),
           Whole(12))
C18_RevenueOfEnergized ==
    /\ (fin.op = "monthly_revenue" /\ fin.exc = "none") =>
            \A i \in DOMAIN fin.value : fin.value[i] = RevenueOf(energized_turbines(i))
    /\ (fin.op = "monthly_opex" /\ fin.exc = "none"
            /\ energize_points(progress_data).exc = "none") =>
            \A i \in DOMAIN fin.value : fin.value[i] = OpexOf(energized_turbines(i))
\* with the strings energized in their order the two agree
InOrder ==
    LET ep == energize_points(progress_data)
    IN  \A j, k \in DOMAIN ep.times : j < k => ep.times[j] <= ep.times[k]
C18_RevenueInOrder ==
    (fin.op = "monthly_revenue" /\ fin.exc = "none" /\ InOrder) =>
        \A i \in DOMAIN fin.value : fin.value[i] = RevenueOf(energized_turbines(i))

\* C19: when the progress logs yield no energize points (a required tag is
\* missing), monthly_opex is 0.0 in every month and cash_flow does not raise
\* but takes the revenue as 0: cash_flow[i] = -monthly_expenses[i]; an error
\* comes only where there is no month at all to compute over (the empty cash
\* flow, which npv raises on too).
NoPoints == energize_points(progress_data).exc = "ValueError"
documented_commissioning == <<1, 100>>
documented_decommissioning == <<3, 20>>
FractionOf(k, documented) == get(config, k, documented)
C20_DocumentedDefaults ==
    /\ fin.op = "commissioning" =>
            IF out_of_range(FractionOf("commissioning", documented_commissioning))
            THEN fin.exc = "ValueError"
            ELSE /\ fin.exc = "none"
                 /\ fin.value = RatMul(RatAdd(bos_capex.value, turbine_capex.value),
                                       FractionOf("commissioning", documented_commissioning))
    /\ fin.op = "decommissioning" =>
            IF out_of_range(FractionOf("decommissioning", documented_decommissioning))
            THEN fin.exc = "ValueError"
            ELSE /\ fin.exc = "none"
                 /\ fin.value = RatMul(installation_capex.value,
                                       FractionOf("decommissioning", documented_decommissioning))
\* the fractions that are given are applied and checked as stated
C20_GivenFractions ==
    (fin.op \in {"commissioning", "decommissioning"} /\ fin.op \in DOMAIN config) =>
        IF out_of_range(config[fin.op].leaf) THEN fin.exc = "ValueError"
        ELSE /\ fin.exc = "none"
             /\ fin.value = RatMul(IF fin.op = "commissioning"
                                   THEN RatAdd(bos_capex.value, turbine_capex.value)
                                   ELSE installation_capex.value, config[fin.op].leaf)

(***************************************************************************)
(* C21.  In run_project every design phase is executed, in listed order,   *)
(* before any install phase; in mapping mode every install phase with a    *)
(* defined (date or numeric) start is executed before any dependent one.   *)
(***************************************************************************)
DesignRuns == SelectSeq(runs, LAMBDA r : r.kind = "design")
VariableNames == {variable[i].name : i \in DOMAIN variable}
C21_PhaseOrder ==
    /\ \A j \in DOMAIN DesignRuns : DesignRuns[j].name = design_phases[j]
    /\ \A k \in DOMAIN runs : runs[k].kind = "install" =>
          /\ \A j \in DOMAIN runs : runs[j].kind = "design" => j < k
          /\ Len(DesignRuns) = Len(design_phases)
    /\ Overlapping =>
          \A k \in DOMAIN runs : runs[k].name \in VariableNames =>
              \A i \in DOMAIN defined : \E j \in RunsOf(defined[i].name) : j < k

\* a design phase, then a phase with a numeric start, then its dependent
C21_Witness ==
    /\ Overlapping
    /\ Len(runs) >= 3
    /\ runs[1].kind = "design"
    /\ runs[2].name \in DefinedNames
    /\ Last(runs).name \in VariableNames

(***************************************************************************)
(* C22.  In mapping mode every entry with a 'time' key that phase p adds   *)
(* to the global log has time = (phase-local time) + (start_p - zero),     *)
(* zero being the least defined start: the entries of the earliest defined *)
(* phase are unshifted and no entry of the global log has a negative time. *)
(***************************************************************************)
TimedLogs == {i \in DOMAIN output_logs : "time" \in output_logs[i].keys}
\* the run of the phase that wrote entry i: its completion entry is written
\* at the phase-local time runs[k].time
WriterOf(i) == {k \in RunsOf(output_logs[i].phase) : runs[k].exc = "none"}
C22_LogShift ==
    Overlapping =>
        \A i \in TimedLogs :
            /\ WriterOf(i) /= {}
            /\ \A k \in WriterOf(i) :
                  /\ output_logs[i].time = runs[k].time + (runs[k].start - zero)
                  /\ runs[k].start = zero => output_logs[i].time = runs[k].time
            /\ output_logs[i].time >= 0

\* an entry of a dependent phase, shifted by a start later than zero
C22_Witness ==
    /\ Overlapping
    /\ \E i \in TimedLogs :
          /\ output_logs[i].phase \in VariableNames
          /\ \E k \in WriterOf(i) : runs[k].start > zero
    /\ \E i \in TimedLogs : \E k \in WriterOf(i) : runs[k].start = zero

(***************************************************************************)
(* C23.  When the Region-2 sweep and the rated solve of compute have       *)
(* finished, the region indices satisfy 0 <= i_2p5 <= i_rated < i_3 <= N   *)
(* (N = n_pc), for every power curve the oracle returns.                   *)
(***************************************************************************)
RatedSolved == step \in {"region3", "fixed", "outputs", "done"} /\ curve_raised = "none"
C23_RegionIndices ==
    RatedSolved => (0 <= i_2p5 /\ i_2p5 <= i_rated /\ i_rated < i_3 /\ i_3 <= n_pc)
\* the part the code keeps: every index lies in the grid
C23_IndicesInGrid ==
    RatedSolved => (i_2p5 \in Grid /\ i_rated \in Grid /\ i_3 \in 1..n_pc)
\* the order of the rated and the Region 3 index alone
C23_RatedBelowRegion3 == RatedSolved => i_rated < i_3
\* the order of the Region 2.5 and the rated index alone
C23_Region2p5BelowRated == RatedSolved => i_2p5 <= i_rated

(***************************************************************************)
(* C24.  compute never raises when a bounded root-find or a constrained    *)
(* minimisation fails: it takes the fallback and goes on to the outputs,   *)
(* wherever the rated index lies in the grid.                              *)
(***************************************************************************)
C24_NeverRaises == curve_raised = "none"
\* the rated index at an interior grid point: the bracket is ordered there
C24_InteriorNeverRaises ==
    (step = "rated" /\ 0 < i_rated /\ i_rated < n_pc - 1) =>
        \A s \in rated_search(i_rated) : s.exc = "none"

(***************************************************************************)
(* C25.  monthly_expenses has one bucket for each of the 12 * lifetime     *)
(* months, and every log entry with a cost and a time in                   *)
(* [0, 730 * 12 * lifetime) adds its cost to the bucket                    *)
(* floor(time / 730) + 1 and to no other, in whatever order the entries    *)
(* stand in the global log.                                                *)
(***************************************************************************)
ExpensesRead == fin.op = "monthly_expenses" /\ fin.exc = "none"
LifetimeMonths == 1..(get(config, "project_lifetime", Whole(25))[1] * 12)
\* the cost of the entries whose time falls in month i
CostOfMonth(i) ==
    LET expenses == filter_logs(output_logs, {"cost", "time"})
    IN  SumSeq([j \in DOMAIN expenses |->
                   IF expenses[j].time >= 0 /\ MonthOf(expenses[j].time) = i
                   THEN expenses[j].cost ELSE 0])
C25_MonthlyBuckets ==
    ExpensesRead =>
        /\ DOMAIN fin.value = LifetimeMonths
        /\ \A i \in LifetimeMonths :
              fin.value[i] = RatAdd(Whole(CostOfMonth(i)), monthly_opex.value[i])
\* the number of buckets alone
C25_BucketCount == ExpensesRead => DOMAIN fin.value = LifetimeMonths
\* the buckets the code makes hold the cost of their month
C25_BucketContents ==
    ExpensesRead =>
        \A i \in DOMAIN fin.value :
            fin.value[i] = RatAdd(Whole(CostOfMonth(i)), monthly_opex.value[i])

(***************************************************************************)
(* C26.  Cp_Ct_Cq_Tables.compute uses a tip-speed-ratio, pitch or wind     *)
(* vector the user set (not all zeros) unchanged, puts the default linear  *)
(* grid (tsr 7..11, pitch -5..5, wind V_in..V_out) in the place of a       *)
(* vector of zeros only, and the output vectors are the vectors the table  *)
(* [tsr][pitch][wind speed] is filled from.                                *)
(***************************************************************************)
AllZeros(v) == \A k \in DOMAIN v : v[k] = 0
VectorUsed(in, default) == IF AllZeros(in) THEN default ELSE in
TablesSet == tables.step \in {"fill", "done"}
FilledFrom(tsr, pitch_v, U) ==
    \A j \in 1..n_tsr, k \in 1..n_pitch, i \in 1..n_U :
        tables.Cp_aero_table[j][k][i] = evaluate(U[i], tsr[j], pitch_v[k])
C26_VectorsUsed ==
    TablesSet =>
        /\ tables.tsr_vector = VectorUsed(tables.tsr_vector_in, np_linspace(7, 11, n_tsr))
        /\ tables.pitch_vector = VectorUsed(tables.pitch_vector_in, np_linspace(-5, 5, n_pitch))
        /\ tables.U_vector =
              VectorUsed(tables.U_vector_in, np_linspace(control_Vin, control_Vout, n_U))
        /\ tables.step = "done" =>
              FilledFrom(tables.tsr_vector, tables.pitch_vector, tables.U_vector)
\* the pitch vector alone
C26_PitchVectorUsed ==
    TablesSet =>
        tables.pitch_vector = VectorUsed(tables.pitch_vector_in, np_linspace(-5, 5, n_pitch))
\* the parts the code keeps: vectors without negative entries, a vector of
\* zeros, and the table filled from the output vectors
C26_NonNegativeVectorsUsed ==
    TablesSet =>
        /\ tables.tsr_vector = VectorUsed(tables.tsr_vector_in, np_linspace(7, 11, n_tsr))
        /\ tables.U_vector =
              VectorUsed(tables.U_vector_in, np_linspace(control_Vin, control_Vout, n_U))
        /\ (\A k \in 1..n_pitch : tables.pitch_vector_in[k] >= 0) =>
              tables.pitch_vector =
                  VectorUsed(tables.pitch_vector_in, np_linspace(-5, 5, n_pitch))
C26_OutputsFillTable ==
    tables.step = "done" =>
        FilledFrom(tables.tsr_vector, tables.pitch_vector, tables.U_vector)

(***************************************************************************)
(* C27.  After run_project, project_time is at least the time of every     *)
(* entry of the global log, in serial mode and in mapping mode with        *)
(* overlapping or dependent phases.                                        *)
(***************************************************************************)
RunLogged == pc = "done" /\ raised = "none" /\ output_logs /= <<>>
C27_ProjectTimeIsLatest ==
    RunLogged => \A j \in DOMAIN output_logs :
                    "time" \in output_logs[j].keys => project_time >= output_logs[j].time
\* serial mode: each phase starts when the phase before it has ended
C27_SerialProjectTimeIsLatest ==
    (RunLogged /\ install_phases.kind = "list") =>
        \A j \in DOMAIN output_logs :
            "time" \in output_logs[j].keys => project_time >= output_logs[j].time

(***************************************************************************)
(* C28.  resolve_project_capacity is idempotent: the configuration it      *)
(* returns has capacity = turbine_rating * num_turbines whenever the three *)
(* values are present, and resolving the returned configuration again      *)
(* returns it unchanged and raises nothing.                                *)
(***************************************************************************)
Resolved == cap_pc = "resolved" /\ cap_out.raised = "none"
AllPresent(c) == c.capacity /= None /\ c.turbine_rating /= None /\ c.num_turbines /= None
C28_Idempotent ==
    Resolved =>
        LET r == cap_out.config
        IN  /\ AllPresent(r) => r.capacity = RatMul(r.turbine_rating, r.num_turbines)
            /\ resolve_project_capacity(r) = [raised |-> "none", config |-> r]
\* the second call alone
C28_SecondCallReturnsSame ==
    Resolved => resolve_project_capacity(cap_out.config) = [raised |-> "none", config |-> cap_out.config]
\* inputs whose capacity is a multiple of the rating, and no zero among them
C28_IdempotentOnExactInputs ==
    (/\ Resolved
     /\ \A k \in DOMAIN cap_in : cap_in[k] = None \/ cap_in[k][1] /= 0
     /\ (cap_in.capacity /= None /\ cap_in.turbine_rating /= None) =>
            RatDiv(cap_in.capacity, cap_in.turbine_rating)[2] = 1) =>
        LET r == cap_out.config
        IN  /\ AllPresent(r) => r.capacity = RatMul(r.turbine_rating, r.num_turbines)
            /\ resolve_project_capacity(r) = [raised |-> "none", config |-> r]

(***************************************************************************)
(* C29.  When an install phase fails under catch_exceptions=True, nothing  *)
(* but phase_costs[name] and phase_times[name] changes: phase_starts, the  *)
(* executed-phase map, detailed_outputs and the global log stay as they    *)
(* were, and in serial mode the next phase is given the start the failed   *)
(* phase was given.                                                        *)
(***************************************************************************)
InstallRan == Len(runs') = Len(runs) + 1 /\ Last(runs').kind = "install"
OthersKept(old, new, name) ==
    /\ DOMAIN old \subseteq DOMAIN new
    /\ DOMAIN new \subseteq DOMAIN old \cup {name}
    /\ \A n \in DOMAIN old \ {name} : new[n] = old[n]
C29_Step ==
    /\ (catch_exceptions /\ InstallRan /\ Last(runs').exc /= "none") =>
          /\ phase_starts' = phase_starts
          /\ phases' = phases
          /\ detailed_outputs' = detailed_outputs
          /\ output_logs' = output_logs
          /\ config' = config
          /\ OthersKept(phase_costs, phase_costs', Last(runs').name)
          /\ OthersKept(phase_times, phase_times', Last(runs').name)
          /\ Serial => start' = start
    /\ (catch_exceptions /\ Serial /\ InstallRan /\ runs /= <<>>
          /\ Last(runs).kind = "install" /\ Last(runs).exc /= "none") =>
          Last(runs').start = Last(runs).start
C29_FailureFrame == [][C29_Step]_vars

\* serial mode: the first phase ran and logged, the second failed and was
\* recorded, and the run went on to its end
C29_Witness ==
    /\ Serial /\ catch_exceptions /\ pc = "done"
    /\ Len(InstallRuns) = 2
    /\ InstallRuns[1].exc = "none" /\ InstallRuns[2].exc /= "none"
    /\ InstallRuns[2].start > 0
    /\ InstallRuns[2].name \notin DOMAIN phase_starts
    /\ InstallRuns[2].name \notin DOMAIN detailed_outputs
    /\ InstallRuns[1].name \in DOMAIN detailed_outputs
    /\ \A j \in DOMAIN output_logs : output_logs[j].phase = InstallRuns[1].name

\* serial mode: the first phase failed and the second was given its start
C29_WitnessNextStart ==
    /\ Serial /\ catch_exceptions
    /\ Len(InstallRuns) = 2
    /\ InstallRuns[1].exc /= "none" /\ InstallRuns[2].exc = "none"
    /\ InstallRuns[2].start = InstallRuns[1].start

(***************************************************************************)
(* C30.  After a run in which a phase failed under catch_exceptions=True   *)
(* (its cost and time are the name of the exception), bos_capex,           *)
(* overnight_capex, installation_capex and total_capex can still be read   *)
(* and are the sums over the phases that have numeric costs.               *)
(***************************************************************************)
FailedPhases == {k \in DOMAIN phase_costs : ~IsNum(phase_costs[k])}
RanWithFailure == pc = "done" /\ raised = "none" /\ FailedPhases /= {}
NumericCosts(S) == Whole(SumCosts(phase_costs, {k \in S \cap DOMAIN phase_costs : IsNum(phase_costs[k])}))
DesignNames == {k \in DOMAIN phase_costs : Len(k) = 1 /\ k[1] \in design_phase_classes}
C30_CapexOfNumericCosts ==
    RanWithFailure =>
        LET bos == NumericCosts(DOMAIN phase_costs)
            with_turbines == RatAdd(bos, turbine_capex.value)
        IN  /\ bos_capex = Value(bos)
            /\ overnight_capex = Value(RatAdd(NumericCosts(DesignNames), turbine_capex.value))
            /\ installation_capex = Value(NumericCosts(ListedNames))
            /\ total_capex =
                  Value(RatAdd(with_turbines,
                               RatAdd(RatMul(with_turbines, get(config, "commissioning", Zero)),
                                      RatMul(with_turbines, get(config, "decommissioning", Zero)))))
\* bos_capex alone can be read
C30_BosCapexReadable == RanWithFailure => bos_capex.exc = "none"
\* installation_capex, which skips the costs that are not numbers
C30_InstallationCapex ==
    RanWithFailure => installation_capex = Value(NumericCosts(ListedNames))
\* overnight_capex when no design phase is among the failed ones
C30_OvernightCapex ==
    (RanWithFailure /\ FailedPhases \cap DesignNames = {}) =>
        overnight_capex = Value(RatAdd(NumericCosts(DesignNames), turbine_capex.value))

====
